---------------------------- MODULE Spec2Model ----------------------------
(* A model of printdebug/tools.py: the frame resolver (get_frame,          *)
(* get_lineinfo, LineInfo.from_level), the module-level debug() function   *)
(* and the DebugPrinter / DebugColrPrinter classes with their              *)
(* line-continuation maps and enable flags.                                *)
(*                                                                         *)
(* Text is a sequence of one-character strings.  The token "ESC" stands    *)
(* for one complete terminal escape code (non-printing); only Colr         *)
(* strings contain it.                                                     *)
EXTENDS Integers, Sequences, FiniteSets, TLC

(***************************************************************************)
(* Bounds of the model.                                                    *)
(***************************************************************************)
\* Largest number of user function frames above the <module> frame.
MaxDepth == 2
\* Largest `level` argument tried by the frame-resolver calls.
MaxLevel == 4
\* Largest number of with-blocks of catchers nested in each other.
MaxBlocks == 3

(***************************************************************************)
(* Text helpers (Python str operations used by the code).                  *)
(***************************************************************************)
Spaces(n) == [i \in 1..n |-> " "]

\* str.ljust(width): pad on the right with spaces up to width.
str_ljust(s, width) ==
    IF Len(s) >= width THEN s ELSE s \o Spaces(width - Len(s))

\* format spec ">w": pad on the left with spaces up to w.
str_rjust(s, width) ==
    IF Len(s) >= width THEN s ELSE Spaces(width - Len(s)) \o s

Digit(d) == <<"0", "1", "2", "3", "4", "5", "6", "7", "8", "9">>[d + 1]

\* str(n) for a non-negative integer.
RECURSIVE int_str(_)
int_str(n) == IF n < 10 THEN <<Digit(n)>>
              ELSE int_str(n \div 10) \o <<Digit(n % 10)>>

\* The escape codes: "ESCr" is the code of DebugColrPrinter.errorcolor,
\* "ESC" any other one.
EscapeCodes == {"ESC", "ESCr"}

\* Colr.stripped(): the text without escape codes.
stripped(s) == SelectSeq(s, LAMBDA c : c \notin EscapeCodes)

\* os.path.split(path)[-1]: what follows the last "/".
RECURSIVE path_basename(_)
path_basename(p) ==
    IF \E i \in 1..Len(p) : p[i] = "/"
    THEN path_basename(Tail(p))
    ELSE p

RECURSIVE JoinSeq(_, _)
\* sep.join(parts)
JoinSeq(parts, sep) ==
    IF parts = <<>> THEN <<>>
    ELSE IF Len(parts) = 1 THEN parts[1]
    ELSE parts[1] \o sep \o JoinSeq(Tail(parts), sep)

\* str.endswith('\n')
EndsWithNewline(s) == Len(s) > 0 /\ s[Len(s)] = "\n"

(***************************************************************************)
(* Frames.  A frame carries f_code.co_filename, f_code.co_name, f_lineno.  *)
(* A call stack is a sequence of frames, oldest first; the frame at index  *)
(* i has f_back at index i - 1, and index 0 stands for None.               *)
(***************************************************************************)
Frame(filename, name, lineno) ==
    [filename |-> filename, name |-> name, lineno |-> lineno]

ModuleFrame ==
    Frame(<<"/", "a", "/", "t", ".", "p", "y">>,
          <<"<", "m", "o", "d", "u", "l", "e", ">">>, 3)

\* The user functions that may be on the stack.
UserFrames ==
    { Frame(<<"/", "a", "/", "t", ".", "p", "y">>, <<"f">>, 7),
      Frame(<<"u">>, <<"g", "g">>, 12) }

\* Frames of the library's own functions while they run.
ToolsFile == <<"/", "p", "/", "x", ".", "p", "y">>
LibFrame(name) == Frame(ToolsFile, name, 0)

VARIABLES
    stack,              \* the user call stack (<module> first)
    _enabled,           \* module-level flag (tools.py line 62)
    debug_continued,    \* debug.continued (line 161)
    debug_should_raise, \* debug.should_raise (line 163)
    self_continued,     \* per instance: self.continued (line 490)
    self_enabled,       \* per instance: self._enabled (line 492)
    seen,               \* history: how the last emit on a stream ended
    want,               \* history: what the last enable/disable asked for
    last,               \* history: the last operation of the library
    res,                \* history: the last frame-resolver call
    gen,                \* the object_str generator in use (lines 336-378)
    js,                 \* the last json_str call and its result
    self_file,          \* per instance: self.file (line 488)
    asked,              \* history: the `file` each instance was built with
    cat,                \* sys.stdout, sys.stderr and the active catchers
    pos                 \* history: per stream, where the written text ends

\* The state of the emitters and of the frame resolver.
core == <<stack, _enabled, debug_continued, debug_should_raise,
          self_continued, self_enabled, seen, want, res>>

\* What __init__ gave the printers.
inst == <<self_file, asked>>

\* The state outside the emitters and the frame resolver.
others == <<gen, js, self_file, asked, cat, pos>>

vars == <<stack, _enabled, debug_continued, debug_should_raise,
          self_continued, self_enabled, seen, want, last, res,
          gen, js, self_file, asked, cat, pos>>

(***************************************************************************)
(* Frame resolver.                                                         *)
(***************************************************************************)
\* _ensure_level (lines 240-248) for an integer level.
_ensure_level(level) == IF level < 0 THEN -level ELSE level

\* The loop of get_frame (lines 258-262): -1 stands for the ValueError
\* raised inside the loop, 0 for None.
\* Mutant: the loop stops one step early (level > 0).
RECURSIVE get_frame_loop_short(_, _)
get_frame_loop_short(frame, level) ==
    IF level > 0
    THEN IF frame = 0 THEN -1
         ELSE get_frame_loop_short(frame - 1, level - 1)
    ELSE frame

RECURSIVE get_frame_loop(_, _)
get_frame_loop(frame, level) ==
    IF level > -1
    THEN IF frame = 0 THEN -1
         ELSE get_frame_loop(frame - 1, level - 1)
    ELSE frame

\* get_frame (lines 251-265).  stk is the interpreter stack of the caller
\* of get_frame; the result is the index of the frame in stk, or the
\* record of a raised ValueError.
ValueError == [ok |-> FALSE, exc |-> "ValueError"]
Found(i) == [ok |-> TRUE, frame |-> i]

\* Mutant: the check after the loop (lines 263-264) is missing, so None
\* is returned.
get_frame_unchecked(stk, level) ==
    LET own == Append(stk, LibFrame(<<"get_frame">>))
        frame == get_frame_loop(Len(own), _ensure_level(level))
    IN  IF frame < 0 THEN ValueError ELSE Found(frame)

get_frame(stk, level) ==
    LET own == Append(stk, LibFrame(<<"get_frame">>))
        frame == get_frame_loop(Len(own), _ensure_level(level))
    IN  IF frame < 1 THEN ValueError ELSE Found(frame)

\* LineInfo.from_frame (lines 763-770).
from_frame(stk, r) ==
    IF r.ok
    THEN [ok |-> TRUE, frame |-> r.frame,
          filename |-> stk[r.frame].filename,
          name |-> stk[r.frame].name,
          lineno |-> stk[r.frame].lineno]
    ELSE r

\* get_lineinfo (lines 268-275); stk is the stack of its caller.
get_lineinfo(stk, level) ==
    LET own == Append(stk, LibFrame(<<"get_lineinfo">>))
    IN  from_frame(own, get_frame(own, level + 1))

\* LineInfo.from_level (lines 772-777); stk is the stack of its caller.
from_level(stk, level) ==
    LET own == Append(stk, LibFrame(<<"from_level">>))
    IN  from_frame(own, get_frame(own, _ensure_level(level) + 1))

(***************************************************************************)
(* Line-info formats.  A format is a sequence of pieces; a piece is        *)
(* literal text or a replacement field with a minimum width (">w").        *)
(***************************************************************************)
Lit(text) == [field |-> "lit", text |-> text, width |-> 0]
Field(name, width) == [field |-> name, text |-> <<>>, width |-> width]

\* default_format (line 49): '{filename}:{lineno:>5} {name:>25}(): '
default_format ==
    << Field("filename", 0), Lit(<<":">>), Field("lineno", 5), Lit(<<" ">>),
       Field("name", 25), Lit(<<"(", ")", ":", " ">>) >>

\* default_colr_format (lines 53-58): the same pieces, each coloured piece
\* wrapped in an escape code and a reset code.
default_colr_format ==
    << Lit(<<"ESC">>), Field("filename", 0), Lit(<<":", "ESC">>),
       Lit(<<"ESC">>), Field("lineno", 5), Lit(<<" ", "ESC">>),
       Lit(<<"ESC">>), Field("name", 25), Lit(<<"ESC">>),
       Lit(<<"(", ")", ":", " ">>) >>

\* The format of debugprinter_test (__main__.py line 177):
\* '{filename}.{lineno}>{name}: '
custom_format ==
    << Field("filename", 0), Lit(<<".">>), Field("lineno", 0), Lit(<<">">>),
       Field("name", 0), Lit(<<":", " ">>) >>

RECURSIVE str_format(_, _, _, _)
\* fmt.format(filename=..., lineno=..., name=...)
str_format(fmt, filename, lineno, name) ==
    IF fmt = <<>> THEN <<>>
    ELSE LET p == Head(fmt)
             piece == CASE p.field = "lit" -> p.text
                        [] p.field = "filename" -> str_rjust(filename, p.width)
                        [] p.field = "lineno" -> str_rjust(int_str(lineno), p.width)
                        [] p.field = "name" -> str_rjust(name, p.width)
         IN  piece \o str_format(Tail(fmt), filename, lineno, name)

\* What a terminal shows of a text: its characters without escape codes.
Rendered(s) == stripped(s)

\* Colr.ljust(width): pads by the width without escape codes.
colr_ljust(s, width) ==
    IF Len(stripped(s)) >= width THEN s
    ELSE s \o Spaces(width - Len(stripped(s)))

(***************************************************************************)
(* Message values and print().                                             *)
(***************************************************************************)
StrVal(s) == [t |-> "str", s |-> s]
IntVal(n) == [t |-> "int", s |-> int_str(n)]

\* str(value)
py_str(v) == v.s

\* The text print(*args, sep=sep, end=end) writes.
print_text(args, sep, end) ==
    JoinSeq([i \in 1..Len(args) |-> py_str(args[i])], sep) \o end

(***************************************************************************)
(* Streams, emitters and call arguments.                                   *)
(***************************************************************************)
Streams == {"stderr", "stdout"}
\* The `file` argument: None or a stream.
Files == {"None"} \cup Streams
\* sys.stderr and sys.stdout
sys_stderr == "stderr"
sys_stdout == "stdout"

\* Objects without a `write` attribute given as `file`: 0 (false in a
\* boolean context) and object() (true).
BadSinks == {"0", "object"}
Sinks == Files \cup BadSinks

\* hasattr(file, 'write')
Writable(file) == file \in Streams

\* bool(file)
Truthy(file) == file \notin {"None", "0"}

Instances == {"dp", "cp"}
\* All the printers built: dp, cp and pp = DebugPrinter().
Printers == Instances \cup {"pp"}
Emitters == {"debug"} \cup Instances

\* The ljustwidth default (lines 120 and 482).
DefaultLjustWidth == 40

\* Message argument lists tried: none, one str, an int followed by a str.
ArgLists ==
    { <<>>,
      <<StrVal(<<"h", "i">>)>>,
      <<IntVal(5), StrVal(<<"b">>)>> }
Ends == { <<"\n">>, <<>>, <<";", "\n">> }
EmitLevels == {0, 2}

\* fmt / ljustwidth / basename as given to debug() or to __init__.
Style(name) ==
    IF name = "default"
    THEN [fmt |-> default_format, ljustwidth |-> DefaultLjustWidth,
          basename |-> TRUE]
    ELSE [fmt |-> custom_format, ljustwidth |-> 16, basename |-> FALSE]

\* The arguments of one call of debug() or of DebugPrinter.debug();
\* debug() also takes the style (fmt, ljustwidth, basename).
EmitArgs ==
    [args : ArgLists, sep : {<<" ">>}, end : Ends, file : {"None", "stdout"},
     level : EmitLevels, align : BOOLEAN, style : {"default"},
     transform : {"None"}]

\* The calls tried while the enable flags are exercised.
PlainArgs ==
    [args : {<<>>, <<StrVal(<<"h", "i">>)>>}, sep : {<<" ">>},
     end : {<<"\n">>, <<>>}, file : {"None"},
     level : {0}, align : {FALSE}, style : {"default"},
     transform : {"None"}]

\* The two printers and their constructor arguments (lines 481-495 and
\* 697-723): dp = DebugPrinter(fmt=custom, ljustwidth=16, basename=False,
\* should_raise=True) and cp = DebugColrPrinter(); pp = DebugPrinter()
\* has the defaults of lines 481-484.
cfg(i) ==
    IF i = "dp"
    THEN [cls |-> "DebugPrinter", fmt |-> custom_format, colr |-> FALSE,
          ljustwidth |-> 16, basename |-> FALSE, file |-> sys_stderr,
          should_raise |-> TRUE]
    ELSE IF i = "pp"
    THEN [cls |-> "DebugPrinter", fmt |-> default_format, colr |-> FALSE,
          ljustwidth |-> DefaultLjustWidth, basename |-> TRUE,
          file |-> sys_stderr, should_raise |-> FALSE]
    ELSE [cls |-> "DebugColrPrinter", fmt |-> default_colr_format,
          colr |-> TRUE, ljustwidth |-> DefaultLjustWidth,
          basename |-> TRUE, file |-> sys_stderr, should_raise |-> FALSE]

(***************************************************************************)
(* The continuation maps: a dict from stream to bool.                      *)
(***************************************************************************)
\* Mutant: a stream missing from the dict counts as continued.
continued_get_default_true(m, file) ==
    IF file \in DOMAIN m THEN m[file] ELSE TRUE

\* dict.get(file, False)
continued_get(m, file) == IF file \in DOMAIN m THEN m[file] ELSE FALSE

\* Mutant: one flag for all the streams of the dict.
continued_set_all(m, file, value) ==
    [f \in DOMAIN m \cup {file} |-> value]

\* dict[file] = value
continued_set(m, file, value) ==
    [f \in DOMAIN m \cup {file} |-> IF f = file THEN value ELSE m[f]]

\* Mutant: compares `end` with '\n' instead of using endswith.
willcontinue_exact(end) == end # <<"\n">>

\* willcontinue (lines 144 and 544)
willcontinue(end) == ~EndsWithNewline(end)

(***************************************************************************)
(* What an operation did: the history record kept in `last`.               *)
(***************************************************************************)
NoArgs ==
    [args |-> <<>>, sep |-> <<>>, end |-> <<>>, file |-> "None",
     level |-> 0, align |-> FALSE, style |-> "default",
     transform |-> "None"]

\* An operation other than an emit: op names it, e is the emitter it was
\* called on ("module" for the module-level functions).
Did(e, op) ==
    [e |-> e, op |-> op, s |-> "none", outcome |-> "none", a |-> NoArgs,
     before |-> "none", lineinfo |-> <<>>, text |-> <<>>]

\* An emit: a call of debug() or DebugPrinter.debug().
Called(e, s, outcome, a, lineinfo, text) ==
    [e |-> e, op |-> "debug", s |-> s, outcome |-> outcome, a |-> a,
     before |-> IF s \in Streams THEN seen[e][s] ELSE "none",
     lineinfo |-> lineinfo, text |-> text]

\* How the stream was left by an emit with this `end`.
LeftAs(end) == IF EndsWithNewline(end) THEN "nl" ELSE "open"

\* The result of one call: its outcome, the stream, the continuation map
\* it leaves, the line info it built and the text it wrote.
Result(outcome, s, continued, lineinfo, text) ==
    [outcome |-> outcome, s |-> s, continued |-> continued,
     lineinfo |-> lineinfo, text |-> text]

(***************************************************************************)
(* debug() (lines 73-156), called from the function on top of `stack`.     *)
(***************************************************************************)
\* kwargs['file'] (lines 105-106)
debug_file(file) == IF file = "None" THEN sys_stderr ELSE file

\* lineinfo (lines 126-139); `parent` is not given.
debug_lineinfo(info, style) ==
    LET fname == IF style.basename THEN path_basename(info.filename)
                 ELSE info.filename
    IN  str_ljust(str_format(style.fmt, fname, info.lineno, info.name),
                  style.ljustwidth)

\* Lines 141-156: the continuation logic and the print.
debug_emit_on(cont, a, file, lineinfo) ==
    LET continued == continued_get(cont, file)
        newmap == continued_set(cont, file, willcontinue(a.end))
    IN  IF a.align /\ a.args[1].t # "str"
        \* ''.join((' ' * n, pargs[0])) with a non-str pargs[0]
        THEN Result("TypeError", file, newmap, lineinfo, <<>>)
        ELSE IF a.transform # "None"
        \* print() takes no `transform` keyword
        THEN Result("TypeError", file, newmap, lineinfo, <<>>)
        ELSE IF ~Writable(file)
        \* print(..., file=file) finds no file.write
        THEN Result("AttributeError", file, newmap, lineinfo, <<>>)
        ELSE IF a.align \/ continued
        THEN IF a.align
             THEN Result("printed", file, newmap, lineinfo,
                         Spaces(Len(lineinfo))
                             \o print_text(a.args, a.sep, a.end))
             ELSE Result("printed", file, newmap, lineinfo,
                         print_text(a.args, a.sep, a.end))
        ELSE Result("printed", file, newmap, lineinfo,
                    lineinfo \o print_text(a.args, a.sep, <<>>) \o a.end)

debug_emit(a, file, lineinfo) ==
    debug_emit_on(debug_continued, a, file, lineinfo)

\* Mutant: the flag is not consulted.
debug_disabled_never == FALSE

\* Line 99: is debug() disabled?
debug_disabled == ~_enabled

\* debug() called from the function on top of stk, with debug.continued
\* being cont.
debug_call_on(stk, cont, a) ==
    LET file == debug_file(a.file)
    IN  IF a.args = <<>>
        THEN Result("noargs", file, cont, <<>>, <<>>)
        ELSE IF debug_disabled
        THEN IF debug_should_raise
             THEN Result("DebugNotEnabled", file, cont, <<>>, <<>>)
             ELSE Result("disabled", file, cont, <<>>, <<>>)
        ELSE LET backlevel == _ensure_level(a.level) + 1
                 info == get_lineinfo(Append(stk, LibFrame(<<"debug">>)),
                                      backlevel)
             IN  IF ~info.ok
                 THEN Result("ValueError", file, cont, <<>>, <<>>)
                 ELSE debug_emit_on(cont, a, file,
                                    debug_lineinfo(info, Style(a.style)))

debug_call(a) == debug_call_on(stack, debug_continued, a)

(***************************************************************************)
(* DebugPrinter.debug() (lines 497-557) for instance i.                    *)
(***************************************************************************)
\* kwargs['file'] (lines 506-507)
printer_file(i, file) == IF file = "None" THEN self_file[i] ELSE file

\* lineinfo_len (lines 665-669 and 725-729)
lineinfo_len(i, s) ==
    IF cfg(i).cls = "DebugColrPrinter" /\ cfg(i).colr
    THEN Len(stripped(s))
    ELSE Len(s)

\* transform_text (lines 681-687 and 735-737)
transform_text(i, text) ==
    IF cfg(i).cls = "DebugColrPrinter"
    THEN <<"ESC">> \o text \o <<"ESC">>
    ELSE text

\* transform_err (lines 671-679 and 731-733)
transform_err(i, text) ==
    IF cfg(i).cls = "DebugColrPrinter"
    THEN <<"ESCr">> \o text \o <<"ESC">>
    ELSE text

\* str.upper() of the letters used in the messages: the `transform`
\* function of the tests (test_printdebug.py lines 244-245).
upper(text) ==
    [k \in 1..Len(text) |->
        CASE text[k] = "h" -> "H" [] text[k] = "i" -> "I"
          [] text[k] = "b" -> "B" [] OTHER -> text[k]]

\* Mutant: the `transform` keyword is ignored.
transfunc_own(a) == "transform_text"

\* Line 535: transfunc, by name ("None": the keyword is not given).
transfunc(a) ==
    IF a.transform = "None" THEN "transform_text" ELSE a.transform

\* transfunc(text) (lines 536-538)
transformed(i, name, text) ==
    CASE name = "transform_text" -> transform_text(i, text)
      [] name = "transform_err" -> transform_err(i, text)
      [] name = "upper" -> upper(text)

\* lineinfo (lines 517-532)
printer_lineinfo(i, info) ==
    LET fname == IF cfg(i).basename THEN path_basename(info.filename)
                 ELSE info.filename
        s == str_format(cfg(i).fmt, fname, info.lineno, info.name)
    IN  IF cfg(i).colr THEN colr_ljust(s, cfg(i).ljustwidth)
        ELSE str_ljust(s, cfg(i).ljustwidth)

\* Lines 535-557: the transformation, the continuation logic, the print.
printer_emit_on(cont, i, a, file, lineinfo) ==
    LET text == transformed(i, transfunc(a), print_text(a.args, a.sep, <<>>))
        continued == continued_get(cont, file)
        newmap == continued_set(cont, file, willcontinue(a.end))
    IN  IF ~Writable(file)
        \* print(..., file=file) finds no file.write
        THEN Result("AttributeError", file, newmap, lineinfo, <<>>)
        ELSE IF a.align \/ continued
        THEN Result("printed", file, newmap, lineinfo,
                    (IF a.align THEN Spaces(lineinfo_len(i, lineinfo))
                     ELSE <<>>) \o text \o a.end)
        ELSE Result("printed", file, newmap, lineinfo,
                    lineinfo \o text \o a.end)

printer_emit(i, a, file, lineinfo) ==
    printer_emit_on(self_continued[i], i, a, file, lineinfo)

\* Mutant: the module-level flag is not consulted.
printer_disabled_own(i) == ~self_enabled[i]

\* Mutant: `or` in place of `and`.
printer_disabled_either(i) == ~(self_enabled[i] \/ _enabled)

\* Line 501: is this printer disabled?
printer_disabled(i) == ~(self_enabled[i] /\ _enabled)

\* self.debug() called from the function on top of stk, with
\* self.continued being cont.
printer_call_on(stk, cont, i, a) ==
    LET file == printer_file(i, a.file)
    IN  IF a.args = <<>>
        THEN Result("noargs", file, cont, <<>>, <<>>)
        ELSE IF printer_disabled(i)
        THEN IF cfg(i).should_raise
             THEN Result("DebugNotEnabled", file, cont, <<>>, <<>>)
             ELSE Result("disabled", file, cont, <<>>, <<>>)
        ELSE LET backlevel == _ensure_level(a.level) + 1
                 info == get_lineinfo(Append(stk, LibFrame(<<"debug">>)),
                                      backlevel)
             IN  IF ~info.ok
                 THEN Result("ValueError", file, cont, <<>>, <<>>)
                 ELSE printer_emit_on(cont, i, a, file,
                                      printer_lineinfo(i, info))

printer_call(i, a) == printer_call_on(stack, self_continued[i], i, a)

(***************************************************************************)
(* object_str (lines 336-378).  A value is a record: k is its kind, s its  *)
(* text (str, bytes), n its number (int), items its elements (list, iter)  *)
(* or its <<key, value>> pairs in iteration order (dict).  "list" stands   *)
(* for any re-iterable collection, "iter" for a one-shot iterator.         *)
(***************************************************************************)
Val(k, s, n, items) == [k |-> k, s |-> s, n |-> n, items |-> items]
VStr(s) == Val("str", s, 0, <<>>)
VBytes(s) == Val("bytes", s, 0, <<>>)
VInt(n) == Val("int", <<>>, n, <<>>)
VNone == Val("none", <<>>, 0, <<>>)
VList(items) == Val("list", <<>>, 0, items)
VIter(items) == Val("iter", <<>>, 0, items)
VDict(pairs) == Val("dict", <<>>, 0, pairs)

\* The characters of the texts used, in code point order.
Alphabet == <<"N", "a", "b", "e", "k", "n", "o", "x", "y">>
Ord(c) == CHOOSE i \in 1..Len(Alphabet) : Alphabet[i] = c

RECURSIVE text_lt(_, _)
\* a < b for two str (or two bytes)
text_lt(a, b) ==
    IF b = <<>> THEN FALSE
    ELSE IF a = <<>> THEN TRUE
    ELSE IF a[1] = b[1] THEN text_lt(Tail(a), Tail(b))
    ELSE Ord(a[1]) < Ord(b[1])

RECURSIVE py_lt(_, _)
\* a < b as sorted() evaluates it: "lt", "ge", or "TypeError" when the
\* two values are not orderable.
py_lt(a, b) ==
    IF a.k = "int" /\ b.k = "int"
    THEN IF a.n < b.n THEN "lt" ELSE "ge"
    ELSE IF a.k = b.k /\ a.k \in {"str", "bytes"}
    THEN IF text_lt(a.s, b.s) THEN "lt" ELSE "ge"
    ELSE IF a.k = "list" /\ b.k = "list"
    THEN LET n == IF Len(a.items) < Len(b.items) THEN Len(a.items)
                  ELSE Len(b.items)
             diff == {i \in 1..n : a.items[i] # b.items[i]}
         IN  IF diff = {}
             THEN IF Len(a.items) < Len(b.items) THEN "lt" ELSE "ge"
             ELSE LET i == CHOOSE d \in diff : \A e \in diff : d <= e
                  IN  py_lt(a.items[i], b.items[i])
    ELSE "TypeError"

\* sorted(items) raises no TypeError.
orderable(items) ==
    \A i, j \in 1..Len(items) :
        i # j => py_lt(items[i], items[j]) # "TypeError"

RECURSIVE insert_sorted(_, _)
\* x put into the sorted sequence srt, after the elements not above it.
insert_sorted(x, srt) ==
    IF srt = <<>> THEN <<x>>
    ELSE IF py_lt(x, Head(srt)) = "lt" THEN <<x>> \o srt
    ELSE <<Head(srt)>> \o insert_sorted(x, Tail(srt))

RECURSIVE sort_items(_)
\* sorted(items) for orderable items (stable).
sort_items(items) ==
    IF items = <<>> THEN <<>>
    ELSE insert_sorted(items[Len(items)],
                       sort_items(SubSeq(items, 1, Len(items) - 1)))

\* str(obj) of a scalar or a key
value_str(v) ==
    CASE v.k = "str" -> v.s
      [] v.k = "int" -> int_str(v.n)
      [] v.k = "none" -> <<"N", "o", "n", "e">>
      [] OTHER -> <<"?">>

\* Mutant: bytes are written like text.
bytes_verbatim(s) == s

\* '{!r}'.format(obj) for bytes
bytes_repr(s) == <<"b", "'">> \o s \o <<"'">>

\* Mutant: the keys are not sorted.
dict_keys_unsorted(obj) ==
    [i \in 1..Len(obj.items) |-> obj.items[i][1]]

\* Lines 356-360: the keys, sorted or in iteration order.
dict_keys(obj) ==
    LET ks == [i \in 1..Len(obj.items) |-> obj.items[i][1]]
    IN  IF orderable(ks) THEN sort_items(ks) ELSE ks

\* obj[key]
dict_get(obj, key) ==
    LET i == CHOOSE j \in 1..Len(obj.items) : obj.items[j][1] = key
    IN  obj.items[i][2]

\* Lines 372-376: the items, sorted or as list(obj) gives them after the
\* failed sorted(obj); a one-shot iterator was used up by sorted().
iter_items(obj) ==
    IF orderable(obj.items) THEN sort_items(obj.items)
    ELSE IF obj.k = "iter" THEN <<>>
    ELSE obj.items

\* The kinds that hold other values.
Containers == {"dict", "list", "iter"}

\* What the generator still has to do: yield a line, or format a value.
\* `depth` is history: the number of containers the line or value is
\* nested in.
WLine(text, depth) ==
    [w |-> "line", text |-> text, v |-> VNone, indent |-> 0, depth |-> depth]
WValue(v, indent, depth) ==
    [w |-> "value", text |-> <<>>, v |-> v, indent |-> indent,
     depth |-> depth]

\* The indent of a mapping's values (line 363).
value_indent(indent) == indent + 4

\* The indent of a collection's elements (line 378).
item_indent(indent) == indent

RECURSIVE flatten(_)
flatten(seqs) == IF seqs = <<>> THEN <<>> ELSE Head(seqs) \o flatten(Tail(seqs))

\* One level of object_str(obj, indent): lines 350-378.
expand(obj, indent, depth) ==
    CASE obj.k = "str" -> <<WLine(Spaces(indent) \o obj.s, depth)>>
      [] obj.k = "bytes" ->
            <<WLine(Spaces(indent) \o bytes_repr(obj.s), depth)>>
      [] obj.k = "dict" ->
            LET keys == dict_keys(obj)
            IN  flatten([i \in 1..Len(keys) |->
                    << WLine(Spaces(indent) \o value_str(keys[i]) \o <<":">>,
                             depth),
                       WValue(dict_get(obj, keys[i]), value_indent(indent),
                              depth + 1) >>])
      [] obj.k \in {"list", "iter"} ->
            LET items == iter_items(obj)
            IN  [i \in 1..Len(items) |->
                    WValue(items[i], item_indent(indent),
                           IF items[i].k \in Containers THEN depth + 1
                           ELSE depth)]
      [] OTHER -> <<WLine(Spaces(indent) \o value_str(obj), depth)>>

RECURSIVE advance(_)
\* Run the generator up to its next yield: the work left, a line first.
advance(work) ==
    IF work = <<>> THEN <<>>
    ELSE IF Head(work).w = "line" THEN work
    ELSE CHOOSE r \in
            { advance(w) :
                w \in { expand(Head(work).v, Head(work).indent,
                               Head(work).depth) \o Tail(work) } } : TRUE

RECURSIVE drain(_)
\* list(generator): every line the work left yields, in order.
drain(work) ==
    LET w == advance(work)
    IN  IF w = <<>> THEN <<>> ELSE <<Head(w).text>> \o drain(Tail(w))

\* list(object_str(obj, indent))
object_lines(obj, indent) == drain(<<WValue(obj, indent, 0)>>)

\* No generator made yet.
NoGen ==
    [status |-> "none", obj |-> VNone, indent |-> 0, work |-> <<>>,
     out |-> <<>>, depths |-> <<>>, got |-> "none"]

(***************************************************************************)
(* json_str (lines 278-333).  json.dumps is modelled by what decides its   *)
(* outcome: whether the object's keys can be sorted and whether all of it  *)
(* can be serialised.                                                      *)
(***************************************************************************)
\* The objects serialised: {'b': 1, 'a': 2}; {1: 'a', 'b': 2} (keys that
\* cannot be sorted); {1, 2} (not serialisable); {1: {1}, 'b': 2} (both);
\* a list that contains itself.
JsonObjects == {"plain", "mixedkeys", "set", "mixedkeys_set", "circular"}

\* An exception: its type, what it is about, and the json.dumps call
\* (first or second) that raised it.
Exc(type, about, attempt) ==
    [ok |-> FALSE, type |-> type, about |-> about, attempt |-> attempt,
     text |-> <<>>]

\* The text json.dumps returns, named by what determines it.
Dumped(obj, indent, sort_keys, ensure_ascii) ==
    [ok |-> TRUE, type |-> "none", about |-> "none", attempt |-> 0,
     text |-> <<obj, indent, sort_keys, ensure_ascii>>]

\* json.dumps(obj, indent=indent, sort_keys=sort_keys,
\* ensure_ascii=ensure_ascii), as call number `attempt` of json_str.
json_dumps(obj, indent, sort_keys, ensure_ascii, attempt) ==
    IF obj = "circular" THEN Exc("ValueError", "circular", attempt)
    ELSE IF sort_keys /\ obj \in {"mixedkeys", "mixedkeys_set"}
    THEN Exc("TypeError", "sort", attempt)
    ELSE IF obj \in {"set", "mixedkeys_set"}
    THEN Exc("TypeError", "serialize", attempt)
    ELSE Dumped(obj, indent, sort_keys, ensure_ascii)

\* Lines 285-286: the default indent.
DefaultIndent == 4

\* Lines 287-292: the sort_keys of the first attempt.
sortedkeys(sort_keys) == IF sort_keys = "None" THEN TRUE ELSE sort_keys = "True"

\* Mutant: the error of the retry is raised.
json_retry_raises_second(first, second) == second

\* Lines 329-332: the retry failed too.
json_retry_failed(first, second) == first

\* json_str(obj, indent=indent, sort_keys=sort_keys,
\* ensure_ascii=ensure_ascii): the value returned or the exception raised,
\* and the number of json.dumps calls made.
json_str_result(obj, indent, sort_keys, ensure_ascii) ==
    LET ind == IF indent = <<>> THEN DefaultIndent ELSE indent[1]
        first == json_dumps(obj, ind, sortedkeys(sort_keys), ensure_ascii, 1)
        second == json_dumps(obj, ind, FALSE, ensure_ascii, 2)
    IN  IF first.ok \/ first.type # "TypeError"
        THEN [r |-> first, calls |-> 1]
        ELSE IF sort_keys = "True"
        THEN [r |-> first, calls |-> 1]
        ELSE IF second.ok THEN [r |-> second, calls |-> 2]
        ELSE IF second.type = "TypeError"
        THEN [r |-> json_retry_failed(first, second), calls |-> 2]
        ELSE [r |-> second, calls |-> 2]

\* No json_str call made yet.
NoJson ==
    [called |-> FALSE, obj |-> "plain", indent |-> <<>>,
     sort_keys |-> "None", ensure_ascii |-> TRUE,
     r |-> Dumped("plain", 0, FALSE, TRUE), calls |-> 0]

(***************************************************************************)
(* catchers.py: StdOutCatcher and StdErrCatcher.  `cat` holds sys.stdout   *)
(* and sys.stderr (a stream or a catcher), the with-blocks that are open   *)
(* (outermost first), the exception that is propagating, and as history    *)
(* the last block left.                                                    *)
(***************************************************************************)
CatcherClasses == {"StdOutCatcher", "StdErrCatcher"}

\* The catcher objects: the n-th open with-block built the n-th one.
CatcherIds == <<"c1", "c2", "c3", "c4", "c5">>

\* A catcher in its with-block: `old` is self.oldstdout (line 29) or
\* self.oldstderr (line 68); entry is history, sys.stdout and sys.stderr
\* when the block was entered.
Block(cls, self, old, entry) ==
    [cls |-> cls, self |-> self, old |-> old, entry |-> entry]

\* sys.stdout and sys.stderr
SysStreams(out, err) == [stdout |-> out, stderr |-> err]

\* __enter__ (lines 27-31 and 66-70): what sys.stdout and sys.stderr become.
catcher_enter(cls, self, sys) ==
    IF cls = "StdOutCatcher" THEN SysStreams(self, sys.stderr)
    ELSE SysStreams(sys.stdout, self)

\* Mutant: the stream is put back only when the block ends normally.
catcher_exit_normal_only(b, sys, exctype) ==
    IF exctype # "none" THEN sys
    ELSE IF b.cls = "StdOutCatcher" THEN SysStreams(b.old, sys.stderr)
    ELSE SysStreams(sys.stdout, b.old)

\* __exit__ (lines 33-37 and 72-76): what sys.stdout and sys.stderr become.
catcher_exit(b, sys, exctype) ==
    IF b.cls = "StdOutCatcher" THEN SysStreams(b.old, sys.stderr)
    ELSE SysStreams(sys.stdout, b.old)

NoBlock == Block("none", "none", "none", SysStreams("none", "none"))

\* A catcher object after __init__ (lines 19-25).
Catcher(safe, maxlength) ==
    [safe |-> safe, maxlength |-> maxlength, lines |-> <<>>]

\* The default of `maxlength` (line 19).
DefaultMaxLength == 160

RECURSIVE lstrip_newlines(_)
\* s.lstrip('\n')
lstrip_newlines(s) ==
    IF s # <<>> /\ Head(s) = "\n" THEN lstrip_newlines(Tail(s)) ELSE s

RECURSIVE rstrip_newlines(_)
\* s.rstrip('\n')
rstrip_newlines(s) ==
    IF s # <<>> /\ s[Len(s)] = "\n"
    THEN rstrip_newlines(SubSeq(s, 1, Len(s) - 1))
    ELSE s

\* s.strip('\n') (line 56)
strip_newlines(s) == rstrip_newlines(lstrip_newlines(s))

\* The characters of s.
chars(s) == {s[k] : k \in 1..Len(s)}

\* The quote repr() puts around a str: double quotes when the text has a
\* single quote and no double quote.
repr_quote(s) ==
    IF "'" \in chars(s) /\ "\"" \notin chars(s) THEN "\"" ELSE "'"

\* repr() of one character of a str quoted with q.
repr_char(c, q) ==
    CASE c = "\n" -> <<"\\", "n">>
      [] c = "\\" -> <<"\\", "\\">>
      [] c = q -> <<"\\", c>>
      [] OTHER -> <<c>>

\* repr(s)[1:-1] (line 50)
repr_body(s) == flatten([k \in 1..Len(s) |-> repr_char(s[k], repr_quote(s))])

\* The marker of line 52.
Truncated == <<" ", "(", ".", ".", "t", "r", "u", "n", "c", "a", "t", "e", "d", ")">>

\* Mutant: the text is never cut.
safe_output_uncut(c, s) == repr_body(s)

\* safe_output (lines 47-53) of catcher c.
safe_output(c, s) ==
    LET r == repr_body(s)
    IN  IF c.maxlength # 0 /\ Len(r) > c.maxlength
        THEN SubSeq(r, 1, c.maxlength) \o Truncated
        ELSE r

\* write (lines 55-61) of catcher c: the lines it leaves and what it
\* returns.
catcher_write(c, s) ==
    LET t == strip_newlines(s)
    IN  IF t = <<>> THEN [lines |-> c.lines, ret |-> 0]
        ELSE [lines |-> Append(c.lines,
                               IF c.safe THEN safe_output(c, t) ELSE t),
              ret |-> Len(t)]

\* The output property (lines 39-41) of catcher c.
output(c) == JoinSeq(c.lines, <<"\n">>)

NoCatch ==
    [sys |-> SysStreams(sys_stdout, sys_stderr), blocks |-> <<>>,
     exc |-> "none",
     obj |-> [c \in {CatcherIds[k] : k \in 1..Len(CatcherIds)} |->
                 Catcher(FALSE, DefaultMaxLength)],
     wrote |-> [self |-> "none", s |-> <<>>, ret |-> 0, before |-> <<>>],
     left |-> [b |-> NoBlock, exc |-> "none",
               sys |-> SysStreams("none", "none")]]

(***************************************************************************)
(* Initial state: the module is imported and the two printers built.       *)
(***************************************************************************)
NoRes == [op |-> "none", level |-> 0, r |-> ValueError]

Init ==
    /\ stack = <<ModuleFrame>>
    /\ _enabled = TRUE
    /\ debug_continued = [f \in {sys_stderr} |-> FALSE]
    /\ debug_should_raise = FALSE
    /\ self_continued = [i \in Printers |-> [f \in {cfg(i).file} |-> FALSE]]
    /\ self_enabled = [i \in Printers |-> TRUE]
    /\ seen = [e \in Emitters |-> [f \in Streams |-> "none"]]
    /\ want = [i \in Instances |-> TRUE]
    /\ last = Did("module", "import")
    /\ res = NoRes
    /\ gen = NoGen
    /\ js = NoJson
    /\ self_file = [i \in Printers |-> cfg(i).file]
    /\ asked = [i \in Instances |-> "None"]
    /\ cat = NoCatch
    /\ pos = [s \in Streams |-> "start"]

(***************************************************************************)
(* The program around the library: calls and returns of user functions.    *)
(***************************************************************************)
\* A user function calls another one (not itself).
Call(fr) ==
    /\ Len(stack) <= MaxDepth
    /\ fr # stack[Len(stack)]
    /\ stack' = Append(stack, fr)
    /\ last' = Did("module", "call")
    /\ res' = NoRes
    /\ UNCHANGED <<others, _enabled, debug_continued, debug_should_raise,
                   self_continued, self_enabled, seen, want>>

Return ==
    /\ Len(stack) > 1
    /\ stack' = SubSeq(stack, 1, Len(stack) - 1)
    /\ last' = Did("module", "return")
    /\ res' = NoRes
    /\ UNCHANGED <<others, _enabled, debug_continued, debug_should_raise,
                   self_continued, self_enabled, seen, want>>

(***************************************************************************)
(* The operations of the library.                                          *)
(***************************************************************************)
\* debug_enable (lines 65-70)
debug_enable(enabled) ==
    /\ _enabled' = enabled
    /\ last' = Did("module", "debug_enable")
    /\ UNCHANGED <<others, stack, debug_continued, debug_should_raise,
                   self_continued, self_enabled, seen, want, res>>

\* debug.should_raise = value (the attribute of line 163)
set_should_raise(value) ==
    /\ debug_should_raise' = value
    /\ last' = Did("module", "should_raise")
    /\ UNCHANGED <<others, stack, _enabled, debug_continued, self_continued,
                   self_enabled, seen, want, res>>

\* The outcomes of a call that got as far as the continuation logic
\* (lines 141-156 and 540-557).
Reached == {"printed", "TypeError"}

\* Where the text written to the streams ends once `text` has been
\* written to s: at the start of a line, or inside one ("mid").
PosAfter(s, text) ==
    IF text = <<>> \/ s \notin Streams THEN pos
    ELSE [pos EXCEPT ![s] = IF EndsWithNewline(text) THEN "start" ELSE "mid"]

\* What an emitter's history of a stream becomes after a call.
SeenAfter(e, r, a) ==
    IF r.outcome \in Reached
    THEN [seen EXCEPT ![e][r.s] = LeftAs(a.end)]
    ELSE seen

\* debug(*args, **kwargs)
debug(a) ==
    \E r \in {debug_call(a)} :
        /\ debug_continued' = r.continued
        /\ last' = Called("debug", r.s, r.outcome, a, r.lineinfo, r.text)
        /\ seen' = SeenAfter("debug", r, a)
        /\ pos' = PosAfter(r.s, r.text)
        /\ UNCHANGED <<gen, js, inst, cat, stack, _enabled, debug_should_raise,
                       self_continued, self_enabled, want, res>>

\* self.debug(*args, **kwargs)
DebugPrinter_debug(i, a) ==
    \E r \in {printer_call(i, a)} :
        /\ self_continued' = [self_continued EXCEPT ![i] = r.continued]
        /\ last' = Called(i, r.s, r.outcome, a, r.lineinfo, r.text)
        /\ seen' = SeenAfter(i, r, a)
        /\ pos' = PosAfter(r.s, r.text)
        /\ UNCHANGED <<gen, js, inst, cat, stack, _enabled, debug_continued,
                       debug_should_raise, self_enabled, want, res>>

\* Mutant: the flag is kept on the class, shared by all instances.
DebugPrinter_disable_class(i, disabled) ==
    /\ self_enabled' = [j \in DOMAIN self_enabled |-> ~disabled]
    /\ want' = [want EXCEPT ![i] = ~disabled]
    /\ last' = Did(i, "disable")
    /\ UNCHANGED <<others, stack, _enabled, debug_continued, debug_should_raise,
                   self_continued, seen, res>>

\* Mutant: the negation is missing.
DebugPrinter_disable_plain(i, disabled) ==
    /\ self_enabled' = [self_enabled EXCEPT ![i] = disabled]
    /\ want' = [want EXCEPT ![i] = ~disabled]
    /\ last' = Did(i, "disable")
    /\ UNCHANGED <<others, stack, _enabled, debug_continued, debug_should_raise,
                   self_continued, seen, res>>

\* disable (lines 635-637)
DebugPrinter_disable(i, disabled) ==
    /\ self_enabled' = [self_enabled EXCEPT ![i] = ~disabled]
    /\ want' = [want EXCEPT ![i] = ~disabled]
    /\ last' = Did(i, "disable")
    /\ UNCHANGED <<others, stack, _enabled, debug_continued, debug_should_raise,
                   self_continued, seen, res>>

\* disabled.setter (lines 646-648)
DebugPrinter_set_disabled(i, value) ==
    /\ self_enabled' = [self_enabled EXCEPT ![i] = ~value]
    /\ want' = [want EXCEPT ![i] = ~value]
    /\ last' = Did(i, "set_disabled")
    /\ UNCHANGED <<others, stack, _enabled, debug_continued, debug_should_raise,
                   self_continued, seen, res>>

\* enable (lines 650-652)
DebugPrinter_enable(i, enabled) ==
    /\ self_enabled' = [self_enabled EXCEPT ![i] = enabled]
    /\ want' = [want EXCEPT ![i] = enabled]
    /\ last' = Did(i, "enable")
    /\ UNCHANGED <<others, stack, _enabled, debug_continued, debug_should_raise,
                   self_continued, seen, res>>

\* enabled.setter (lines 661-663)
DebugPrinter_set_enabled(i, value) ==
    /\ self_enabled' = [self_enabled EXCEPT ![i] = value]
    /\ want' = [want EXCEPT ![i] = value]
    /\ last' = Did(i, "set_enabled")
    /\ UNCHANGED <<others, stack, _enabled, debug_continued, debug_should_raise,
                   self_continued, seen, res>>

\* The property getters (lines 639-644 and 654-659).
DebugPrinter_disabled(i) == ~self_enabled[i]
DebugPrinter_enabled(i) == self_enabled[i]

(***************************************************************************)
(* Spec: a program that emits through one emitter, from any function and   *)
(* to both streams, with printing enabled throughout.                      *)
(***************************************************************************)
\* Emitter e has not been used yet.
Unused(e) ==
    /\ \A f \in Streams : seen[e][f] = "none"
    /\ IF e = "debug" THEN debug_continued = [f \in {sys_stderr} |-> FALSE]
       ELSE self_continued[e] = [f \in {cfg(e).file} |-> FALSE]

OnlyUser(e) == \A o \in Emitters \ {e} : Unused(o)

Next ==
    \/ \E fr \in UserFrames : Call(fr)
    \/ Return
    \/ OnlyUser("debug") /\ \E a \in EmitArgs : debug(a)
    \/ \E i \in Instances : OnlyUser(i) /\ \E a \in EmitArgs : DebugPrinter_debug(i, a)

Spec == Init /\ [][Next]_vars

(***************************************************************************)
(* SpecFlags: a program that uses all three emitters from module level     *)
(* and turns the enable flags on and off.                                  *)
(***************************************************************************)
NextFlags ==
    \/ \E v \in BOOLEAN : debug_enable(v)
    \/ \E v \in BOOLEAN : set_should_raise(v)
    \/ \E a \in PlainArgs : debug(a)
    \/ \E i \in Instances, a \in PlainArgs : DebugPrinter_debug(i, a)
    \/ \E i \in Instances, v \in BOOLEAN : DebugPrinter_disable(i, v)
    \/ \E i \in Instances, v \in BOOLEAN : DebugPrinter_set_disabled(i, v)
    \/ \E i \in Instances, v \in BOOLEAN : DebugPrinter_enable(i, v)
    \/ \E i \in Instances, v \in BOOLEAN : DebugPrinter_set_enabled(i, v)

SpecFlags == Init /\ [][NextFlags]_vars

(***************************************************************************)
(* SpecFrames: the frame resolver on its own, called from the top of       *)
(* `stack`.                                                                *)
(***************************************************************************)
Levels == (-MaxLevel)..MaxLevel

Resolved(op, level, r) ==
    /\ res' = [op |-> op, level |-> level, r |-> r]
    /\ last' = Did("module", op)
    /\ UNCHANGED <<others, stack, _enabled, debug_continued, debug_should_raise,
                   self_continued, self_enabled, seen, want>>

call_get_frame(level) == Resolved("get_frame", level, get_frame(stack, level))

call_get_lineinfo(level) ==
    Resolved("get_lineinfo", level, get_lineinfo(stack, level))

call_from_level(level) ==
    Resolved("from_level", level, from_level(stack, level))

NextFrames ==
    \/ \E fr \in UserFrames : Call(fr)
    \/ Return
    \/ \E level \in Levels : call_get_frame(level)
    \/ \E level \in Levels : call_get_lineinfo(level)
    \/ \E level \in Levels : call_from_level(level)

SpecFrames == Init /\ [][NextFrames]_vars

(***************************************************************************)
(* Properties of the frame resolver (checked under SpecFrames).            *)
(***************************************************************************)
\* The caller of the resolver is the top of `stack`; the frame d frames
\* above it is stack[Len(stack) - d].
Above(d) == stack[Len(stack) - d]

\* C1: for every call stack and every level d >= 0 within it,
\* get_frame(level=d) returns the frame exactly d frames above its caller,
\* and get_lineinfo(level=d) and LineInfo.from_level(d) return the file,
\* function name and line number of that frame.
C1_FrameAtLevel ==
    (res.op # "none" /\ res.level >= 0 /\ res.level < Len(stack)) =>
        /\ res.r.ok
        /\ res.r.frame = Len(stack) - res.level
        /\ res.op \in {"get_lineinfo", "from_level"} =>
            /\ res.r.filename = Above(res.level).filename
            /\ res.r.name = Above(res.level).name
            /\ res.r.lineno = Above(res.level).lineno

\* Witness of C1: get_lineinfo(level=2) called two functions deep reports
\* the <module> frame.
C1_Witness ==
    /\ res.op = "get_lineinfo" /\ res.level = 2 /\ Len(stack) = 3
    /\ res.r.ok /\ res.r.name = ModuleFrame.name /\ res.r.lineno = 3

\* C2: get_frame(level=d), d >= 0, raises ValueError exactly when d exceeds
\* the number of frames above its caller (Len(stack) - 1); otherwise it
\* returns the requested frame, never None and never another frame.
C2_ValueErrorIffTooLarge ==
    (res.op = "get_frame" /\ res.level >= 0) =>
        /\ (res.r = ValueError) <=> (res.level > Len(stack) - 1)
        /\ (res.r # ValueError) =>
              res.r = Found(Len(stack) - res.level) /\ res.r.frame >= 1

\* Witness of C2: the smallest level that is too large raises.
C2_Witness ==
    /\ res.op = "get_frame" /\ res.level = Len(stack) /\ Len(stack) > 1
    /\ res.r = ValueError

(***************************************************************************)
(* Properties of the continuation logic (checked under Spec).              *)
(***************************************************************************)
\* The continuation state of stream s for emitter e: TRUE is CONTINUED,
\* FALSE is FRESH.
Cont(e, s) ==
    IF e = "debug" THEN continued_get(debug_continued, s)
    ELSE continued_get(self_continued[e], s)

\* The message of an emit: the arguments joined by sep, as the emitter
\* styles them.
Message(e, a) ==
    IF e = "debug" THEN print_text(a.args, a.sep, <<>>)
    ELSE transform_text(e, print_text(a.args, a.sep, <<>>))

\* The last step was an emit that wrote, without align.
PlainEmit == last.op = "debug" /\ last.outcome = "printed" /\ ~last.a.align

\* C3: of two consecutive emits (without align) on one stream through one
\* emitter, the first with an `end` that does not end in a newline, the
\* second writes only its message and `end`, no prefix and no padding;
\* an emit that does not follow such a partial line writes
\* prefix + message.
C3_PartialLineContinued ==
    PlainEmit =>
        IF last.before = "open"
        THEN last.text = Message(last.e, last.a) \o last.a.end
        ELSE /\ last.lineinfo # <<>>
             /\ last.text = last.lineinfo \o Message(last.e, last.a)
                                \o last.a.end

\* Witness of C3: a second emit continues a partial line, writing "hi"
\* and the newline only.
C3_Witness ==
    /\ PlainEmit /\ last.e = "debug" /\ last.before = "open"
    /\ last.a.end = <<"\n">>
    /\ last.text = <<"h", "i", "\n">>

\* C4: a stream an emitter never emitted to is FRESH, also when it is
\* absent from the continuation map; after every emit that took one of the
\* branches of the continuation logic (prefixed, continued, align) the
\* target stream is CONTINUED iff the call's `end` does not end with a
\* newline.
C4_ContinuedIffNoNewline ==
    /\ \A e \in Emitters, s \in Streams : seen[e][s] = "none" => ~Cont(e, s)
    /\ (last.op = "debug" /\ last.outcome \in Reached) =>
          (Cont(last.e, last.s) <=> ~EndsWithNewline(last.a.end))

\* Witness of C4: an align emit on a partial line leaves the stream
\* CONTINUED (end = ''), while stdout is still absent from the map.
C4_Witness ==
    /\ last.op = "debug" /\ last.outcome = "printed" /\ last.a.align
    /\ last.e = "dp" /\ last.s = "stderr" /\ last.before = "open"
    /\ last.a.end = <<>> /\ Cont("dp", "stderr")
    /\ "stdout" \notin DOMAIN self_continued["dp"]
    /\ ~Cont("dp", "stdout")

\* C5: every emit with align=True that is not suppressed and resolves its
\* frame writes no prefix: it writes the message preceded by as many spaces
\* as the rendered prefix is wide (after ljust, escape codes not counted),
\* in FRESH and in CONTINUED state.
C5_AlignPadsByPrefixWidth ==
    (last.op = "debug" /\ last.a.align /\ last.a.args # <<>>
        /\ last.outcome # "ValueError") =>
        /\ last.outcome = "printed"
        /\ last.text = Spaces(Len(Rendered(last.lineinfo)))
                           \o Message(last.e, last.a) \o last.a.end

\* The prefix an emit to a stream left open must not write.
NoPrefix ==
    (PlainEmit /\ last.before = "open") =>
        last.text = Message(last.e, last.a) \o last.a.end

\* C10: continuation state is tracked per stream: an emit to one stream
\* leaves the state of every other stream of that emitter unchanged, so a
\* partial line on A is continued without a prefix by the next emit to A
\* even when emits to B came in between.
C10_PerStream ==
    [][ /\ (last'.op = "debug") =>
            \A e \in Emitters, s \in Streams :
                (e # last'.e \/ s # last'.s) => Cont(e, s)' = Cont(e, s)
        /\ NoPrefix'
      ]_vars

\* Witness of C10: a partial line on stdout is continued after an emit to
\* stderr that left stderr open as well.
C10_Witness ==
    /\ PlainEmit /\ last.e = "cp" /\ last.s = "stdout"
    /\ last.before = "open" /\ seen["cp"]["stderr"] = "open"
    /\ last.a.end = <<"\n">> /\ Cont("cp", "stderr") /\ ~Cont("cp", "stdout")

(***************************************************************************)
(* Properties of the enable flags (checked under SpecFlags).               *)
(***************************************************************************)
\* The last step was an emit call with at least one message argument (a
\* call without arguments returns at lines 97 and 499, before any flag is
\* read).
EmitCall == last.op = "debug" /\ last.a.args # <<>>

\* Printing is disabled for emitter e, globally or for the instance.
Disabled(e) == ~_enabled \/ (e \in Instances /\ ~self_enabled[e])

\* Strict mode: should_raise is set for emitter e.
Strict(e) == IF e = "debug" THEN debug_should_raise ELSE cfg(e).should_raise

\* C6: every emit call made while printing is disabled (globally by
\* debug_enable(False), or for the instance) writes nothing; in default
\* mode it returns silently, in strict mode (should_raise) it raises
\* DebugNotEnabled.
C6_DisabledSuppressesOrRaises ==
    (EmitCall /\ Disabled(last.e)) =>
        /\ last.text = <<>>
        /\ last.outcome =
              IF Strict(last.e) THEN "DebugNotEnabled" ELSE "disabled"

\* Witness of C6: the default-mode printer is silenced by the global flag
\* while its own flag is on.
C6_Witness ==
    /\ EmitCall /\ last.e = "cp" /\ ~_enabled /\ self_enabled["cp"]
    /\ last.outcome = "disabled" /\ last.text = <<>>

\* C7: each DebugPrinter holds its own continuation map and enabled flag:
\* an operation on one instance changes neither the flag nor the
\* continuation state of a sibling instance or of the module-level debug,
\* and a module-level operation changes those of no instance.
C7_InstanceIsolation ==
    [][ /\ \A i \in Instances :
              last'.e = i =>
                  /\ UNCHANGED <<_enabled, debug_continued, debug_should_raise>>
                  /\ \A j \in Instances \ {i} :
                        /\ self_enabled'[j] = self_enabled[j]
                        /\ self_continued'[j] = self_continued[j]
        /\ last'.e \in {"module", "debug"} =>
              UNCHANGED <<self_enabled, self_continued>>
      ]_vars

\* Witness of C7: dp is disabled while its sibling has a partial line open
\* and stays enabled, as does the module-level flag.
C7_Witness ==
    /\ last.op = "disable" /\ last.e = "dp" /\ ~self_enabled["dp"]
    /\ self_enabled["cp"] /\ _enabled
    /\ continued_get(self_continued["cp"], "stderr")
    /\ ~continued_get(self_continued["dp"], "stderr")

\* C8: while the global flag is off (debug_enable(False)) no emit call
\* writes, module-level or DebugPrinter, whatever the instance's own flag;
\* in every state a DebugPrinter emit call writes iff the global flag and
\* its own flag are both on, and a module-level one iff the global flag
\* is on.
C8_GlobalFlagSilencesAll ==
    EmitCall =>
        /\ ~_enabled => (last.outcome # "printed" /\ last.text = <<>>)
        /\ last.e \in Instances =>
              (last.outcome = "printed" <=> (_enabled /\ self_enabled[last.e]))
        /\ last.e = "debug" => (last.outcome = "printed" <=> _enabled)

\* Witness of C8: an enabled instance does not write while the global flag
\* is off.
C8_Witness ==
    /\ EmitCall /\ last.e = "dp" /\ ~_enabled /\ self_enabled["dp"]
    /\ last.outcome = "DebugNotEnabled" /\ last.text = <<>>

\* C9: after any sequence of enable(), disable(), `enabled = v` and
\* `disabled = v` the instance's enabled state is the one the last
\* operation asked for (`want`), `disabled` equals `not enabled`, and with
\* the global flag on an emit call writes exactly when the instance is
\* enabled.
C9_LastFlagOperationWins ==
    /\ \A i \in Instances :
          /\ DebugPrinter_enabled(i) = want[i]
          /\ DebugPrinter_disabled(i) = ~DebugPrinter_enabled(i)
    /\ (EmitCall /\ last.e \in Instances /\ _enabled) =>
          (last.outcome = "printed" <=> want[last.e])

\* Witness of C9: with the global flag on, an emit call through an
\* instance that was last disabled does not write.
C9_Witness ==
    /\ EmitCall /\ last.e = "cp" /\ _enabled /\ ~want["cp"]
    /\ DebugPrinter_disabled("cp") /\ last.outcome = "disabled"

(***************************************************************************)
(* SpecObject: a program that formats objects with object_str and          *)
(* consumes each generator to its end, as print_object's loop does.        *)
(***************************************************************************)
Txt1(c) == VStr(<<c>>)

\* The objects formatted.
Objects ==
    { VStr(<<"a", "b">>), VBytes(<<"a", "b">>), VInt(5), VNone,
      VList(<<>>), VDict(<<>>),
      \* {'b': 2, 'a': 1}
      VDict(<< <<Txt1("b"), VInt(2)>>, <<Txt1("a"), VInt(1)>> >>),
      \* {'x': {'y': [1, 2]}}
      VDict(<< <<Txt1("x"),
                 VDict(<< <<Txt1("y"), VList(<<VInt(1), VInt(2)>>)>> >>)>> >>),
      \* {1: 'a', 'b': 2}
      VDict(<< <<VInt(1), Txt1("a")>>, <<Txt1("b"), VInt(2)>> >>),
      \* {'k': ['b', 'a']}
      VDict(<< <<Txt1("k"), VList(<<Txt1("b"), Txt1("a")>>)>> >>),
      \* [3, 1, 2], [3, 'a', 1], [1, None]
      VList(<<VInt(3), VInt(1), VInt(2)>>),
      VList(<<VInt(3), Txt1("a"), VInt(1)>>),
      VList(<<VInt(1), VNone>>),
      \* [1, [2, 3]], [[3], [1, 2]]
      VList(<<VInt(1), VList(<<VInt(2), VInt(3)>>)>>),
      VList(<<VList(<<VInt(3)>>), VList(<<VInt(1), VInt(2)>>)>>),
      \* [{'b': 1}, {'a': 2}]
      VList(<< VDict(<< <<Txt1("b"), VInt(1)>> >>),
               VDict(<< <<Txt1("a"), VInt(2)>> >>) >>),
      \* iter([3, 1, 2]), iter([1, 'a'])
      VIter(<<VInt(3), VInt(1), VInt(2)>>),
      VIter(<<VInt(1), Txt1("a")>>) }

\* The `indent` arguments: print_object's default, and debug_object's.
Indents == {0, 4}

\* object_str(obj, indent=indent): makes the generator; nothing runs yet.
object_str(obj, indent) ==
    /\ gen.status \in {"none", "done"}
    /\ gen' = [status |-> "open", obj |-> obj, indent |-> indent,
               work |-> <<WValue(obj, indent, 0)>>, out |-> <<>>,
               depths |-> <<>>, got |-> "none"]
    /\ last' = Did("module", "object_str")
    /\ UNCHANGED <<core, js, inst, cat, pos>>

\* Mutant: the generator never finishes.
gen_next_unfinished ==
    /\ gen.status # "none"
    /\ \E work \in {advance(gen.work)} :
          gen' = IF work = <<>>
                 THEN [gen EXCEPT !.work = <<>>, !.got = "StopIteration"]
                 ELSE [gen EXCEPT !.work = Tail(work),
                                  !.out = Append(@, Head(work).text),
                                  !.depths = Append(@, Head(work).depth),
                                  !.got = "line"]
    /\ last' = Did("module", "next")
    /\ UNCHANGED <<core, js, inst, cat, pos>>

\* next(generator): runs it to its next yield, or to its end.
gen_next ==
    /\ gen.status # "none"
    /\ \E work \in {advance(gen.work)} :
          gen' = IF work = <<>>
                 THEN [gen EXCEPT !.status = "done", !.work = <<>>,
                                  !.got = "StopIteration"]
                 ELSE [gen EXCEPT !.work = Tail(work),
                                  !.out = Append(@, Head(work).text),
                                  !.depths = Append(@, Head(work).depth),
                                  !.got = "line"]
    /\ last' = Did("module", "next")
    /\ UNCHANGED <<core, js, inst, cat, pos>>

NextObject ==
    \/ \E obj \in Objects, indent \in Indents : object_str(obj, indent)
    \/ gen_next

\* The loop that consumes the generator keeps calling next().
SpecObject == Init /\ [][NextObject]_vars /\ WF_vars(gen_next)

(***************************************************************************)
(* SpecJson: a program that serialises objects with json_str.              *)
(***************************************************************************)
\* The indent and sort_keys arguments of json_str: indent is <<>> for
\* None and <<n>> for n.
JsonIndents == {<<>>, <<0>>, <<2>>, <<4>>}
JsonSortKeys == {"None", "True", "False"}

\* json_str(obj, indent=indent, sort_keys=sort_keys,
\* ensure_ascii=ensure_ascii)
json_str(obj, indent, sort_keys, ensure_ascii) ==
    /\ \E o \in {json_str_result(obj, indent, sort_keys, ensure_ascii)} :
          js' = [called |-> TRUE, obj |-> obj, indent |-> indent,
                 sort_keys |-> sort_keys, ensure_ascii |-> ensure_ascii,
                 r |-> o.r, calls |-> o.calls]
    /\ last' = Did("module", "json_str")
    /\ UNCHANGED <<core, gen, inst, cat, pos>>

NextJson ==
    \E obj \in JsonObjects, indent \in JsonIndents,
       sort_keys \in JsonSortKeys, ensure_ascii \in BOOLEAN :
        json_str(obj, indent, sort_keys, ensure_ascii)

SpecJson == Init /\ [][NextJson]_vars

(***************************************************************************)
(* Properties of object_str (checked under SpecObject).                    *)
(***************************************************************************)
\* The generator was consumed to its end.
Consumed == gen.status = "done"

\* The orders of a sequence.
PermsOf(items) ==
    LET n == Len(items)
    IN  { [i \in 1..n |-> items[f[i]]] :
            f \in {g \in [1..n -> 1..n] : \A i, j \in 1..n : g[i] = g[j] => i = j} }

\* o is the order asked for: ascending when the items are mutually
\* orderable, the iteration order otherwise.
InOrder(items, o) ==
    IF orderable(items)
    THEN \A i, j \in 1..Len(o) : i < j => py_lt(o[j], o[i]) # "lt"
    ELSE o = items

\* The keys of a mapping in iteration order.
KeysOf(obj) == [i \in 1..Len(obj.items) |-> obj.items[i][1]]

\* The `key:` line at `indent` and the lines of its value at indent + 4.
KeyBlock(obj, key, indent) ==
    <<Spaces(indent) \o value_str(key) \o <<":">>>>
        \o object_lines(dict_get(obj, key), indent + 4)

\* C11: for a mapping, object_str emits the keys sorted when they are
\* mutually orderable and in iteration order otherwise; for each key one
\* `key:` line at the current indent, immediately followed by all lines of
\* the value formatted at indent + 4, before the next key's line.
C11_MappingKeysAndValues ==
    (Consumed /\ gen.obj.k = "dict") =>
        \E o \in PermsOf(KeysOf(gen.obj)) :
            /\ InOrder(KeysOf(gen.obj), o)
            /\ gen.out = flatten([i \in 1..Len(o) |->
                                     KeyBlock(gen.obj, o[i], gen.indent)])

\* Witness of C11: {'b': 2, 'a': 1} gives a:, 1, b:, 2.
C11_Witness ==
    /\ Consumed /\ gen.indent = 0
    /\ gen.obj = VDict(<< <<Txt1("b"), VInt(2)>>, <<Txt1("a"), VInt(1)>> >>)
    /\ gen.out = << <<"a", ":">>, Spaces(4) \o <<"1">>,
                    <<"b", ":">>, Spaces(4) \o <<"2">> >>

RECURSIVE LeadingSpaces(_)
\* The indent of a line.
LeadingSpaces(line) ==
    IF line = <<>> \/ Head(line) # " " THEN 0
    ELSE 1 + LeadingSpaces(Tail(line))

\* C12: container nesting increases indent and element iteration does
\* not: every line of a value nested inside a container is indented deeper
\* than the lines of the enclosing container level, and lines of the same
\* level share one indent.
C12_NestingIncreasesIndent ==
    Consumed =>
        \A i, j \in 1..Len(gen.out) :
            /\ gen.depths[i] < gen.depths[j] =>
                  LeadingSpaces(gen.out[i]) < LeadingSpaces(gen.out[j])
            /\ gen.depths[i] = gen.depths[j] =>
                  LeadingSpaces(gen.out[i]) = LeadingSpaces(gen.out[j])

\* C13: for an iterable that is not text, bytes or a mapping, object_str
\* emits the formatted elements sorted when they are mutually orderable and
\* in iteration order otherwise, dropping and duplicating none.
C13_ElementsSortedOrInOrder ==
    (Consumed /\ gen.obj.k \in {"list", "iter"}) =>
        \E o \in PermsOf(gen.obj.items) :
            /\ InOrder(gen.obj.items, o)
            /\ gen.out = flatten([i \in 1..Len(o) |->
                                     object_lines(o[i], gen.indent)])

\* The text of a leaf: text verbatim, bytes as their repr, a scalar as its
\* str().
LeafText(obj) ==
    CASE obj.k = "str" -> obj.s
      [] obj.k = "bytes" -> <<"b", "'">> \o obj.s \o <<"'">>
      [] obj.k = "int" -> int_str(obj.n)
      [] obj.k = "none" -> <<"N", "o", "n", "e">>

\* C14: for a leaf value object_str emits exactly one line: the current
\* indent followed by the text verbatim (str), the escaped repr (bytes), or
\* str() of the value (non-iterable scalar).
C14_LeafIsOneLine ==
    (Consumed /\ gen.obj.k \notin Containers) =>
        gen.out = <<Spaces(gen.indent) \o LeafText(gen.obj)>>

\* Witness of C14: b'ab' at indent 4.
C14_Witness ==
    /\ Consumed /\ gen.obj = VBytes(<<"a", "b">>) /\ gen.indent = 4
    /\ gen.out = <<Spaces(4) \o <<"b", "'", "a", "b", "'">>>>

\* C15: object_str yields finitely many lines and then ends, for every
\* value built from text, bytes, scalars, mappings and collections; once
\* consumed, the generator yields nothing more.
C15_FiniteThenExhausted ==
    /\ (gen.status = "open") ~> Consumed
    /\ [][ (Consumed /\ gen'.obj = gen.obj /\ gen'.status # "open") =>
              /\ gen'.status = "done" /\ gen'.out = gen.out
              /\ gen'.got = "StopIteration" ]_vars

\* Witness of C15: a nested object was consumed, and next() on the
\* finished generator raised StopIteration.
C15_Witness ==
    /\ Consumed /\ Len(gen.out) = 4 /\ gen.got = "StopIteration"
    /\ gen.work = <<>> /\ gen.obj.k = "dict"

(***************************************************************************)
(* Properties of json_str (checked under SpecJson).                        *)
(***************************************************************************)
\* The indent json_str was asked to use.
AskedIndent == IF js.indent = <<>> THEN 4 ELSE js.indent[1]

\* The keys of the object can be sorted / the object can be serialised.
Sortable(obj) == obj \in {"plain", "set"}
Serialisable(obj) == obj \in {"plain", "mixedkeys"}

\* C16: json_str serialises with indent 4 and sorted keys by default; when
\* that raises TypeError it retries once without sorting and returns the
\* result; with an explicit sort_keys=True the TypeError is re-raised
\* without a retry; when the unsorted retry fails as well, the error raised
\* is the one of the first attempt.
C16_JsonSortedThenRetry ==
    (js.called /\ js.obj # "circular") =>
        /\ (js.sort_keys = "None" /\ Sortable(js.obj) /\ Serialisable(js.obj)) =>
              /\ js.r = Dumped(js.obj, AskedIndent, TRUE, js.ensure_ascii)
              /\ js.calls = 1
        /\ (js.sort_keys = "None" /\ ~Sortable(js.obj) /\ Serialisable(js.obj)) =>
              /\ js.r = Dumped(js.obj, AskedIndent, FALSE, js.ensure_ascii)
              /\ js.calls = 2
        /\ (js.sort_keys = "True" /\ ~(Sortable(js.obj) /\ Serialisable(js.obj))) =>
              /\ ~js.r.ok /\ js.r.type = "TypeError"
              /\ js.r.attempt = 1 /\ js.calls = 1
        /\ (js.sort_keys = "None" /\ ~Serialisable(js.obj)) =>
              /\ ~js.r.ok /\ js.r.type = "TypeError"
              /\ js.r.attempt = 1 /\ js.calls = 2

\* Witness of C16: both attempts failed for {1: {1}, 'b': 2} and the sort
\* error of the first attempt was raised.
C16_Witness ==
    /\ js.called /\ js.obj = "mixedkeys_set" /\ js.sort_keys = "None"
    /\ js.calls = 2 /\ js.r = Exc("TypeError", "sort", 1)

(***************************************************************************)
(* SpecSink: a program that hands every kind of `file` to the operations   *)
(* that take one, from module level and with printing enabled.             *)
(***************************************************************************)
\* DebugPrinter.__init__ (lines 481-495) with file=file: instance i is
\* built anew with the other arguments of cfg(i).
DebugPrinter_init(i, file) ==
    \E f \in {IF Truthy(file) THEN file ELSE sys_stderr} :
        /\ self_file' = [self_file EXCEPT ![i] = f]
        /\ self_continued' = [self_continued EXCEPT ![i] = [x \in {f} |-> FALSE]]
        /\ self_enabled' = [self_enabled EXCEPT ![i] = TRUE]
        /\ asked' = [asked EXCEPT ![i] = file]
        /\ want' = [want EXCEPT ![i] = TRUE]
        /\ seen' = [seen EXCEPT ![i] = [x \in Streams |-> "none"]]
        /\ last' = [Did(i, "init") EXCEPT !.a.file = file]
        /\ UNCHANGED <<gen, js, cat, pos, stack, _enabled, debug_continued,
                       debug_should_raise, res>>

RECURSIVE print_lines(_)
\* What `for line in lines: print(line, file=file)` writes.
print_lines(lines) ==
    IF lines = <<>> THEN <<>>
    ELSE Head(lines) \o <<"\n">> \o print_lines(Tail(lines))

\* print_object(obj, file=file, indent=indent) (lines 416-438)
print_object(obj, file, indent) ==
    \E f \in {IF file = "None" THEN sys_stdout ELSE file} :
        /\ last' = [Did("module", "print_object") EXCEPT
                        !.a.file = file, !.s = f,
                        !.outcome = IF Writable(f) THEN "printed"
                                    ELSE "TypeError",
                        !.text = IF Writable(f)
                                 THEN print_lines(object_lines(obj, indent))
                                 ELSE <<>>]
        /\ pos' = PosAfter(f, IF Writable(f)
                               THEN print_lines(object_lines(obj, indent))
                               ELSE <<>>)
        /\ UNCHANGED <<core, gen, js, inst, cat>>

\* The emit calls tried: without `file`, and with one that has no `write`.
SinkArgs ==
    [args : {<<StrVal(<<"h", "i">>)>>}, sep : {<<" ">>},
     end : {<<"\n">>, <<>>}, file : {"None"} \cup BadSinks,
     level : {0}, align : {FALSE}, style : {"default"},
     transform : {"None"}]

\* The objects printed: 'ab', [3, 1, 2] and {'b': 2, 'a': 1}.
SinkObjects ==
    { VStr(<<"a", "b">>), VList(<<VInt(3), VInt(1), VInt(2)>>),
      VDict(<< <<Txt1("b"), VInt(2)>>, <<Txt1("a"), VInt(1)>> >>) }

NextSink ==
    \/ \E i \in Instances, file \in Sinks :
          OnlyUser(i) /\ DebugPrinter_init(i, file)
    \/ OnlyUser("debug") /\ \E a \in SinkArgs : debug(a)
    \/ \E i \in Instances :
          OnlyUser(i) /\ \E a \in SinkArgs : DebugPrinter_debug(i, a)
    \/ \E obj \in SinkObjects, file \in Sinks : print_object(obj, file, 0)

SpecSink == Init /\ [][NextSink]_vars

\* The `file` the last operation was to write to, as the program gave it:
\* the call's own, else the one its printer was built with.
GivenSink ==
    IF last.a.file # "None" THEN last.a.file
    ELSE IF last.e \in Instances THEN asked[last.e]
    ELSE "None"

\* The errors that reject a `file` without `write`: print_object's
\* TypeError and print's AttributeError.
SinkErrors == {"TypeError", "AttributeError"}

\* C17: an operation that takes an output stream (print_object, debug with
\* file=, DebugPrinter(file=) and its debug) and is given a target without
\* `write` raises an invalid-sink error, at configuration or at first
\* use, and writes nothing.
C17_InvalidSinkRejected ==
    (last.op \in {"debug", "print_object"} /\ GivenSink \in BadSinks) =>
        /\ last.outcome \in SinkErrors
        /\ last.text = <<>>

(***************************************************************************)
(* SpecCatch: a program that nests with-blocks of catchers, each built in  *)
(* its with statement (catchers.py lines 11-16), and leaves them normally  *)
(* or by an exception.                                                     *)
(***************************************************************************)
\* The exceptions a block's body raises.
BodyExceptions == {"KeyError", "ValueError"}

\* `with StdOutCatcher(safe, maxlength) as c:` or
\* `with StdErrCatcher(safe, maxlength) as c:`
with_enter_as(cls, safe, maxlength) ==
    /\ cat.exc = "none"
    /\ Len(cat.blocks) < MaxBlocks
    /\ \E self \in {CatcherIds[Len(cat.blocks) + 1]} :
          cat' = [cat EXCEPT
                    !.obj[self] = Catcher(safe, maxlength),
                    !.sys = catcher_enter(cls, self, cat.sys),
                    !.blocks = Append(@,
                        Block(cls, self,
                              IF cls = "StdOutCatcher" THEN cat.sys.stdout
                              ELSE cat.sys.stderr,
                              cat.sys))]
    /\ last' = Did("module", "with")
    /\ UNCHANGED <<core, gen, js, inst, pos>>

with_enter(cls) == with_enter_as(cls, FALSE, DefaultMaxLength)

\* The body of the innermost block raises.
body_raise(ex) ==
    /\ cat.blocks # <<>>
    /\ cat.exc = "none"
    /\ cat' = [cat EXCEPT !.exc = ex]
    /\ last' = Did("module", "raise")
    /\ UNCHANGED <<core, gen, js, inst, pos>>

\* The innermost block is left, at its end or by the exception that is
\* propagating: __exit__ runs and returns None, so the exception goes on.
with_exit ==
    /\ cat.blocks # <<>>
    /\ \E b \in {cat.blocks[Len(cat.blocks)]} :
       \E sys \in {catcher_exit(b, cat.sys, cat.exc)} :
          cat' = [cat EXCEPT
                    !.sys = sys,
                    !.blocks = SubSeq(@, 1, Len(@) - 1),
                    !.left = [b |-> b, exc |-> cat.exc, sys |-> sys]]
    /\ last' = Did("module", "exit")
    /\ UNCHANGED <<core, gen, js, inst, pos>>

\* The exception left the outermost block and the caller handles it.
except_caught ==
    /\ cat.blocks = <<>>
    /\ cat.exc # "none"
    /\ cat' = [cat EXCEPT !.exc = "none"]
    /\ last' = Did("module", "except")
    /\ UNCHANGED <<core, gen, js, inst, pos>>

NextCatch ==
    \/ \E cls \in CatcherClasses : with_enter(cls)
    \/ \E ex \in BodyExceptions : body_raise(ex)
    \/ with_exit
    \/ except_caught

SpecCatch == Init /\ [][NextCatch]_vars

(***************************************************************************)
(* SpecBuffer: a program that writes to the catcher of a with-block, in    *)
(* safe mode or not, and leaves the block.                                 *)
(***************************************************************************)
\* At most this many entries are buffered by one catcher.
MaxWrites == 2

\* The texts written: empty, newlines only, wrapped in newlines, with a
\* newline inside, with characters repr() escapes.
WriteTexts ==
    { <<>>, <<"\n", "\n">>, <<"\n", "a", "b", "c", "\n">>,
      <<"a", "\n", "b">>, <<"'", "\\">>, <<"'", "\"", "a">> }

\* The values of maxlength tried: no limit, a short one, the default.
MaxLengths == {0, 3, DefaultMaxLength}

\* sys.stdout.write(s) or sys.stderr.write(s) while catcher `self` is in
\* its place, or c.write(s) in the block.
Catcher_write(s) ==
    /\ cat.blocks # <<>>
    /\ cat.exc = "none"
    /\ \E self \in {cat.blocks[Len(cat.blocks)].self} :
       \E r \in {catcher_write(cat.obj[self], s)} :
          /\ Len(r.lines) <= MaxWrites
          /\ cat' = [cat EXCEPT
                       !.obj[self].lines = r.lines,
                       !.wrote = [self |-> self, s |-> s, ret |-> r.ret,
                                  before |-> cat.obj[self].lines]]
    /\ last' = Did("module", "write")
    /\ UNCHANGED <<core, gen, js, inst, pos>>

NextBuffer ==
    \/ /\ cat.blocks = <<>>
       /\ \E cls \in CatcherClasses, safe \in BOOLEAN,
             maxlength \in MaxLengths : with_enter_as(cls, safe, maxlength)
    \/ \E s \in WriteTexts : Catcher_write(s)
    \/ with_exit

SpecBuffer == Init /\ [][NextBuffer]_vars

\* C24: a write to an active catcher whose text is not empty once the
\* newlines around it are stripped appends exactly one entry to `lines`,
\* after the earlier ones (the stripped text; in safe mode its escaped
\* form, cut to maxlength characters plus ' (..truncated)' when longer
\* than a non-zero maxlength) and returns the stripped length; a write
\* that is empty after stripping appends nothing and returns 0; `output`
\* is the entries joined by newlines, and leaving the block keeps it.
C24_CatcherBuffersWrites ==
    [][ /\ (last'.op = "write") =>
            LET c == cat.obj[cat'.wrote.self]
                c2 == cat'.obj[cat'.wrote.self]
                s == cat'.wrote.s
                t == strip_newlines(s)
                n == Len(c.lines)
            IN  IF \A k \in 1..Len(s) : s[k] = "\n"
                THEN c2.lines = c.lines /\ cat'.wrote.ret = 0
                ELSE /\ Len(c2.lines) = n + 1
                     /\ SubSeq(c2.lines, 1, n) = c.lines
                     /\ cat'.wrote.ret = Len(t)
                     /\ ~c.safe => c2.lines[n + 1] = t
                     /\ c.safe =>
                           LET r == repr_body(t)
                           IN  IF c.maxlength > 0 /\ Len(r) > c.maxlength
                               THEN c2.lines[n + 1] =
                                       SubSeq(r, 1, c.maxlength) \o Truncated
                               ELSE c2.lines[n + 1] = r
                     /\ output(c2) = IF n = 0 THEN c2.lines[1]
                                     ELSE output(c) \o <<"\n">>
                                             \o c2.lines[n + 1]
        /\ (last'.op = "exit") =>
            \A id \in DOMAIN cat.obj : output(cat'.obj[id]) = output(cat.obj[id])
      ]_vars

\* Witness of C24: a safe catcher with maxlength 3 was written "\nabc\n"
\* and then the text of a single quote, a double quote and an a; it holds
\* "abc" and the escaped, cut second text, and the block has been left.
C24_Witness ==
    /\ cat.blocks = <<>>
    /\ cat.left.b.self = "c1"
    /\ cat.obj["c1"].safe /\ cat.obj["c1"].maxlength = 3
    /\ cat.obj["c1"].lines =
          << <<"a", "b", "c">>, <<"\\", "'", "\"">> \o Truncated >>
    /\ output(cat.obj["c1"]) =
          <<"a", "b", "c", "\n", "\\", "'", "\"">> \o Truncated

\* C18: a catcher's with-block puts the catcher in place of sys.stdout
\* (StdOutCatcher) or sys.stderr (StdErrCatcher) and leaves the other
\* stream alone; when the block is left, normally or by an exception,
\* sys.stdout and sys.stderr are the objects they were at entry and the
\* exception, if any, still propagates.
C18_CatcherRestoresStream ==
    [][ /\ Len(cat'.blocks) > Len(cat.blocks) =>
            LET b == cat'.blocks[Len(cat'.blocks)]
            IN  IF b.cls = "StdOutCatcher"
                THEN cat'.sys.stdout = b.self /\ cat'.sys.stderr = cat.sys.stderr
                ELSE cat'.sys.stderr = b.self /\ cat'.sys.stdout = cat.sys.stdout
        /\ Len(cat'.blocks) < Len(cat.blocks) =>
            LET b == cat.blocks[Len(cat.blocks)]
            IN  /\ cat'.sys = b.entry
                /\ cat'.exc = cat.exc
      ]_vars

\* Witness of C18: an exception left a StdErrCatcher block nested in a
\* StdOutCatcher block; sys.stderr is the stream again, sys.stdout is
\* still the outer catcher, and the exception is propagating.
C18_Witness ==
    /\ cat.left.b.cls = "StdErrCatcher" /\ cat.left.exc = "KeyError"
    /\ cat.exc = "KeyError" /\ Len(cat.blocks) = 1
    /\ cat.blocks[1].cls = "StdOutCatcher"
    /\ cat.sys = SysStreams("c1", sys_stderr)
    /\ cat.left.sys = cat.left.b.entry

(***************************************************************************)
(* SpecWrap: a program that emits from any function, at any level, with    *)
(* and without a `transform`, directly and through the wrappers            *)
(* (debug_err, debug_exc, debug_json, debug_object).  Every emit ends its  *)
(* line.                                                                   *)
(***************************************************************************)
\* The state an emit of emitter e leaves, in `last` as operation op.
Emitted(e, op, r, a) ==
    /\ IF e = "debug"
       THEN debug_continued' = r.continued /\ UNCHANGED self_continued
       ELSE /\ self_continued' = [self_continued EXCEPT ![e] = r.continued]
            /\ UNCHANGED debug_continued
    /\ last' = [Called(e, r.s, r.outcome, a, r.lineinfo, r.text)
                    EXCEPT !.op = op]
    /\ seen' = SeenAfter(e, r, a)
    /\ pos' = PosAfter(r.s, r.text)
    /\ UNCHANGED <<gen, js, inst, cat, stack, _enabled, debug_should_raise,
                   self_enabled, want, res>>

\* The stack while wrapper `name` runs.
Inside(name) == Append(stack, LibFrame(name))

\* Mutant: debug_err does not count its own frame.
debug_err_kwargs_same_level(a) ==
    [a EXCEPT !.transform = IF @ = "None" THEN "transform_err" ELSE @]

\* Lines 563-564: the keywords debug_err passes on.
debug_err_kwargs(a) ==
    [a EXCEPT !.transform = IF @ = "None" THEN "transform_err" ELSE @,
              !.level = @ + 1]

\* self.debug_err(*args, **kwargs) (lines 559-565)
DebugPrinter_debug_err(i, a) ==
    \E r \in {printer_call_on(Inside(<<"debug_err">>), self_continued[i], i,
                              debug_err_kwargs(a))} :
        Emitted(i, "debug_err", r, a)

\* The emit calls tried: `transform` is not given, or is the function of
\* the tests.
WrapLevels == 0..3
WrapArgs ==
    [args : {<<StrVal(<<"h", "i">>)>>}, sep : {<<" ">>}, end : {<<"\n">>},
     file : {"None"}, level : WrapLevels, align : {FALSE},
     style : {"default"}, transform : {"None", "upper"}]

\* The calls of the module-level debug(), which takes no `transform`.
WrapPlainArgs == {a \in WrapArgs : a.transform = "None"}

\* The exceptions an emit raises; every other outcome returns None.
Raises == {"ValueError", "TypeError", "AttributeError", "DebugNotEnabled"}

\* debug() or self.debug(), by emitter.
call_on(stk, cont, e, a) ==
    IF e = "debug" THEN debug_call_on(stk, cont, a)
    ELSE printer_call_on(stk, cont, e, a)

RECURSIVE calls_on(_, _, _, _)
\* The emits of a wrapper, one after the other until one raises: what
\* they wrote together, the map they leave, the line info of the first.
calls_on(stk, cont, e, calls) ==
    \* no call is made
    IF calls = <<>> THEN Result("none", "None", cont, <<>>, <<>>)
    ELSE LET r == call_on(stk, cont, e, Head(calls))
         IN  IF r.outcome \in Raises \/ Len(calls) = 1 THEN r
             ELSE LET rest == calls_on(stk, r.continued, e, Tail(calls))
                  IN  Result(IF rest.outcome \in Raises THEN rest.outcome
                             ELSE IF r.outcome = "printed" THEN "printed"
                             ELSE rest.outcome,
                             r.s, rest.continued, r.lineinfo,
                             r.text \o rest.text)

\* The keywords of a wrapper's call of debug(): level=1, and file and
\* align when given.
WrapperArgs(args, file, align) ==
    [args |-> args, sep |-> <<" ">>, end |-> <<"\n">>, file |-> file,
     level |-> 1, align |-> align, style |-> "default",
     transform |-> "None"]

\* The stream an emitter writes to for a `file` argument.
file_of(e, file) ==
    IF e = "debug" THEN debug_file(file) ELSE printer_file(e, file)

\* An exception being handled (sys.exc_info()): its type and str(value).
NoException == [type |-> "None", value |-> <<"N", "o", "n", "e">>]
Exceptions ==
    { NoException, [type |-> "KeyError", value |-> <<"'", "k", "'">>] }

\* substr in s
str_in(substr, s) ==
    \E k \in 0..(Len(s) - Len(substr)) :
        SubSeq(s, k + 1, k + Len(substr)) = substr

\* str_contains (lines 450-469) for a collection of str
str_contains(s, substrs) == \E substr \in substrs : str_in(substr, s)

\* ''.join(traceback.format_exception(...)): its last line names the
\* exception; the lines before it are left out.
format_exception(exc) ==
    <<exc.type, ":", " ">> \o exc.value \o <<"\n">>

\* debug_exc (lines 166-197 and 567-600) of emitter e.
debug_exc_call(e, msg, suppress, suppress_strs, exc) ==
    LET cont == IF e = "debug" THEN debug_continued ELSE self_continued[e]
        file == file_of(e, "None")
    IN  IF ~_enabled THEN Result("disabled", file, cont, <<>>, <<>>)
        ELSE IF suppress # {} /\ exc.type \in suppress
        THEN Result("suppressed", file, cont, <<>>, <<>>)
        ELSE IF suppress_strs # {} /\ str_contains(exc.value, suppress_strs)
        THEN Result("suppressed", file, cont, <<>>, <<>>)
        ELSE IF exc.type = "None"
        THEN Result("noexception", file, cont, <<>>, <<>>)
        ELSE calls_on(Inside(<<"debug_exc">>), cont, e,
                 (IF msg # <<>>
                  THEN <<WrapperArgs(<<StrVal(msg)>>, "None", FALSE)>>
                  ELSE <<>>)
                 \o <<WrapperArgs(<<StrVal(format_exception(exc))>>,
                                  "None", FALSE)>>)

\* The text of a json.dumps result: one token that names it.
json_text(r) ==
    <<"{", r.text[1], IF r.text[3] THEN "sorted" ELSE "unsorted", "}">>

\* debug_json (lines 200-223 and 602-625) of emitter e, with the defaults
\* of json_str.
debug_json_call(e, obj, file) ==
    LET cont == IF e = "debug" THEN debug_continued ELSE self_continued[e]
        json == json_str_result(obj, <<>>, "None", TRUE).r
    IN  IF ~json.ok
        THEN Result(json.type, file_of(e, file), cont, <<>>, <<>>)
        ELSE call_on(Inside(<<"debug_json">>), cont, e,
                 WrapperArgs(<<StrVal(<<"\n">> \o json_text(json))>>,
                             file, FALSE))

\* debug_object (lines 226-232 and 627-633) of emitter e.
debug_object_call(e, obj, file, indent) ==
    LET cont == IF e = "debug" THEN debug_continued ELSE self_continued[e]
        lines == object_lines(obj, indent)
    IN  IF lines = <<>>
        \* linegen.send(None) on a generator that yields nothing
        THEN Result("StopIteration", file_of(e, file), cont, <<>>, <<>>)
        ELSE calls_on(Inside(<<"debug_object">>), cont, e,
                 [k \in 1..Len(lines) |->
                     WrapperArgs(<<StrVal(lines[k])>>, file, k > 1)])

\* The arguments of a wrapper's call, as `last` keeps them.
WrapperCall(args, file) ==
    [WrapperArgs(args, file, FALSE) EXCEPT !.level = 0]

\* The arguments of a debug_exc call and the exception being handled, as
\* `last` keeps them.
ExcCall(msg, suppress, suppress_strs, exc) ==
    [args |-> IF msg = <<>> THEN <<>> ELSE <<StrVal(msg)>>,
     sep |-> <<" ">>, end |-> <<"\n">>, file |-> "None", level |-> 0,
     align |-> FALSE, style |-> "default", transform |-> "None",
     suppress |-> suppress, suppress_strs |-> suppress_strs, exc |-> exc]

\* debug_exc(msg, suppress, suppress_strs) while exc is handled; msg is
\* <<>> for None.
debug_exc(msg, suppress, suppress_strs, exc) ==
    \E r \in {debug_exc_call("debug", msg, suppress, suppress_strs, exc)} :
        Emitted("debug", "debug_exc", r,
                ExcCall(msg, suppress, suppress_strs, exc))

\* self.debug_exc(msg, suppress, suppress_strs) while exc is handled
DebugPrinter_debug_exc(i, msg, suppress, suppress_strs, exc) ==
    \E r \in {debug_exc_call(i, msg, suppress, suppress_strs, exc)} :
        Emitted(i, "debug_exc", r,
                ExcCall(msg, suppress, suppress_strs, exc))

\* debug_json(obj, file=file)
debug_json(obj, file) ==
    \E r \in {debug_json_call("debug", obj, file)} :
        Emitted("debug", "debug_json", r, WrapperCall(<<>>, file))

\* self.debug_json(obj, file=file)
DebugPrinter_debug_json(i, obj, file) ==
    \E r \in {debug_json_call(i, obj, file)} :
        Emitted(i, "debug_json", r, WrapperCall(<<>>, file))

\* debug_object(obj, file=file, indent=indent)
debug_object(obj, file, indent) ==
    \E r \in {debug_object_call("debug", obj, file, indent)} :
        Emitted("debug", "debug_object", r, WrapperCall(<<obj>>, file))

\* self.debug_object(obj, file=file, indent=indent)
DebugPrinter_debug_object(i, obj, file, indent) ==
    \E r \in {debug_object_call(i, obj, file, indent)} :
        Emitted(i, "debug_object", r, WrapperCall(<<obj>>, file))

\* The arguments of debug_exc tried.
ExcMessages == {<<>>, <<"m">>}
ExcSuppress == {{}, {"KeyError"}}
ExcSuppressStrs == {{}, {<<"k">>}}

\* The objects of debug_object: those of print_object, and [].
WrapObjects == SinkObjects \cup {VList(<<>>)}

NextWrap ==
    \/ \E fr \in UserFrames : Call(fr)
    \/ Return
    \/ OnlyUser("debug") /\ \E a \in WrapPlainArgs : debug(a)
    \/ \E i \in Instances :
          OnlyUser(i) /\ \E a \in WrapArgs : DebugPrinter_debug(i, a)
    \/ \E i \in Instances :
          OnlyUser(i) /\ \E a \in WrapArgs : DebugPrinter_debug_err(i, a)
    \/ /\ OnlyUser("debug")
       /\ \E msg \in ExcMessages, sup \in ExcSuppress,
             strs \in ExcSuppressStrs, exc \in Exceptions :
             debug_exc(msg, sup, strs, exc)
    \/ \E i \in Instances :
          /\ OnlyUser(i)
          /\ \E msg \in ExcMessages, sup \in ExcSuppress,
                strs \in ExcSuppressStrs, exc \in Exceptions :
                DebugPrinter_debug_exc(i, msg, sup, strs, exc)
    \/ OnlyUser("debug") /\ \E obj \in JsonObjects : debug_json(obj, "None")
    \/ \E i \in Instances :
          OnlyUser(i) /\ \E obj \in JsonObjects :
              DebugPrinter_debug_json(i, obj, "None")
    \/ OnlyUser("debug") /\ \E obj \in WrapObjects : debug_object(obj, "None", 4)
    \/ \E i \in Instances :
          OnlyUser(i) /\ \E obj \in WrapObjects :
              DebugPrinter_debug_object(i, obj, "None", 4)

SpecWrap == Init /\ [][NextWrap]_vars

(***************************************************************************)
(* Properties of the transforms and of the wrappers (checked under         *)
(* SpecWrap).                                                              *)
(***************************************************************************)
\* The function the message of the last emit has to go through.
DueTransform ==
    IF last.a.transform # "None" THEN last.a.transform
    ELSE IF last.op = "debug_err" THEN "transform_err"
    ELSE "transform_text"

\* C19: DebugPrinter.debug passes the joined message through the
\* `transform` keyword function when one is given and through
\* self.transform_text otherwise, debug_err through the given `transform`
\* or self.transform_err; what is written is the untransformed prefix
\* followed by the transformed text, and print() never sees `transform`
\* (no TypeError).
C19_TransformApplied ==
    (last.op \in {"debug", "debug_err"} /\ last.e \in Instances) =>
        /\ last.outcome # "TypeError"
        /\ last.outcome = "printed" =>
              LET msg == print_text(last.a.args, last.a.sep, <<>>)
                  due == CASE DueTransform = "upper" -> upper(msg)
                           [] DueTransform = "transform_err" ->
                                 transform_err(last.e, msg)
                           [] OTHER -> transform_text(last.e, msg)
              IN  last.text = last.lineinfo \o due \o last.a.end

\* Witness of C19: cp.debug_err('hi', transform=upper) wrote HI, and not
\* in the error colour.
C19_Witness ==
    /\ last.op = "debug_err" /\ last.e = "cp" /\ last.a.transform = "upper"
    /\ last.outcome = "printed"
    /\ last.text = last.lineinfo \o <<"H", "I", "\n">>

\* The prefix emitter e builds for a resolved frame.
Prefix(e, info) ==
    IF e = "debug" THEN debug_lineinfo(info, Style("default"))
    ELSE printer_lineinfo(e, info)

C21_LevelTwoNamesEnclosing ==
    (last.op = "debug" /\ Len(stack) >= 3) =>
        /\ last.a.level = 2 =>
              /\ last.outcome = "printed"
              /\ last.lineinfo =
                    Prefix(last.e, from_frame(stack, Found(Len(stack) - 1)))
        /\ last.a.level = 0 =>
              /\ last.outcome = "printed"
              /\ last.lineinfo =
                    Prefix(last.e, from_frame(stack, Found(Len(stack))))

(***************************************************************************)
(* SpecExc: a program that calls debug_exc from module level, inside and   *)
(* outside an except block, and turns the enable flags on and off.         *)
(***************************************************************************)
NextExc ==
    \/ \E v \in BOOLEAN : debug_enable(v)
    \/ \E v \in BOOLEAN : set_should_raise(v)
    \/ \E i \in Instances, v \in BOOLEAN : DebugPrinter_disable(i, v)
    \/ \E msg \in ExcMessages, sup \in ExcSuppress,
          strs \in ExcSuppressStrs, exc \in Exceptions :
          debug_exc(msg, sup, strs, exc)
    \/ \E i \in Instances, msg \in ExcMessages, sup \in ExcSuppress,
          strs \in ExcSuppressStrs, exc \in Exceptions :
          DebugPrinter_debug_exc(i, msg, sup, strs, exc)

SpecExc == Init /\ [][NextExc]_vars

\* The text of a message as emitter e writes it.
Styled(e, text) == IF e = "debug" THEN text ELSE transform_text(e, text)

\* The last debug_exc call has nothing to report.
ExcQuiet ==
    \/ Disabled(last.e)
    \/ last.a.exc.type = "None"
    \/ last.a.exc.type \in last.a.suppress
    \/ str_contains(last.a.exc.value, last.a.suppress_strs)

\* C22: debug_exc (module-level and DebugPrinter's) writes nothing and
\* raises nothing when debugging is disabled (globally or for the
\* instance, whatever should_raise is), when no exception is being
\* handled, when the exception's type is in `suppress`, or when
\* str(exception) contains a string of `suppress_strs`; otherwise it
\* writes the msg, if given, as one prefixed line and the formatted
\* traceback as a second prefixed emit.
C22_DebugExcQuietOrTraceback ==
    (last.op = "debug_exc") =>
        IF ExcQuiet
        THEN last.outcome \notin Raises /\ last.text = <<>>
        ELSE /\ last.outcome = "printed"
             /\ last.text =
                   (IF last.a.args # <<>>
                    THEN last.lineinfo
                            \o Styled(last.e, py_str(last.a.args[1]))
                            \o <<"\n">>
                    ELSE <<>>)
                   \o last.lineinfo
                   \o Styled(last.e, format_exception(last.a.exc))
                   \o <<"\n">>

\* The lines debug_object has to write for the object of the last call,
\* with the default indent the calls are made with.
ObjectLines == object_lines(last.a.args[1], 4)

\* The padding of an alignment-only emit under the prefix of the last call.
AlignPad ==
    Spaces(IF last.e = "debug" THEN Len(last.lineinfo)
           ELSE lineinfo_len(last.e, last.lineinfo))

\* C23: for every object print_object completes for, debug_object
\* (module-level and DebugPrinter's) completes without raising and writes
\* exactly the lines of object_str(obj, indent), in order: the first as a
\* normal emit with the prefix, each following one in alignment-only mode,
\* and it leaves the stream FRESH.
C23_DebugObjectLikePrintObject ==
    (last.op = "debug_object") =>
        /\ last.outcome \notin Raises \cup {"StopIteration"}
        /\ last.text =
              flatten([k \in 1..Len(ObjectLines) |->
                          (IF k = 1 THEN last.lineinfo ELSE AlignPad)
                              \o Styled(last.e, ObjectLines[k])
                              \o <<"\n">>])
        /\ ~Cont(last.e, last.s)

\* C25: a call of debug or DebugPrinter.debug that ends in an error (level
\* beyond the stack, DebugNotEnabled, a failure while the aligned or
\* continued text is built) leaves the continuation state of every stream
\* as it was and writes nothing.
C25_RaisingEmitLeavesState ==
    [][ (last'.op = "debug" /\ last'.outcome \in Raises) =>
            /\ debug_continued' = debug_continued
            /\ self_continued' = self_continued
            /\ last'.text = <<>>
      ]_vars

(***************************************************************************)
(* SpecTwin: a program that makes every emit twice from the same place,    *)
(* once through the module-level debug and once through pp, a              *)
(* DebugPrinter built with the defaults.                                   *)
(***************************************************************************)
\* debug(*args, **kwargs) and pp.debug(*args, **kwargs) from one call
\* site; `last` keeps the result of the second as `twin`.
debug_twice(a) ==
    \E r \in {debug_call(a)} :
    \E p \in {printer_call("pp", a)} :
        /\ debug_continued' = r.continued
        /\ self_continued' = [self_continued EXCEPT !["pp"] = p.continued]
        /\ last' = [e |-> "debug", op |-> "debug_twice", s |-> r.s,
                    outcome |-> r.outcome, a |-> a, before |-> "none",
                    lineinfo |-> r.lineinfo, text |-> r.text, twin |-> p]
        /\ pos' = PosAfter(r.s, r.text \o p.text)
        /\ UNCHANGED <<gen, js, inst, cat, stack, _enabled, debug_should_raise,
                       self_enabled, seen, want, res>>

NextTwin ==
    \/ \E fr \in UserFrames : Call(fr)
    \/ Return
    \/ \E a \in EmitArgs : debug_twice(a)

SpecTwin == Init /\ [][NextTwin]_vars

\* C26: the module-level debug and a DebugPrinter built with the defaults
\* are equivalent: in every sequence of calls with the same arguments from
\* the same call sites, starting fresh, each pair of calls writes the
\* same text to the same stream, raises or not alike, and leaves every
\* stream in the same continuation state.
C26_DebugEqualsDefaultPrinter ==
    (last.op = "debug_twice") =>
        /\ last.twin.outcome = last.outcome
        /\ last.twin.s = last.s
        /\ last.twin.text = last.text
        /\ \A s \in Streams : Cont("pp", s) = Cont("debug", s)

\* The frame the prefix of debug(level=level) is taken from when debug is
\* called where the resolver was (lines 112-125).
DebugFrame(level) ==
    get_lineinfo(Append(stack, LibFrame(<<"debug">>)),
                 _ensure_level(level) + 1)

\* C27: for every integer level, negative ones included, and every call
\* site, get_lineinfo(level), LineInfo.from_level(level) and
\* debug(level=level) resolve to the same frame, the one |level| frames
\* above the caller.
C27_LevelSignIgnored ==
    (/\ res.op \in {"get_lineinfo", "from_level"}
     /\ _ensure_level(res.level) < Len(stack)) =>
        /\ res.r.ok
        /\ DebugFrame(res.level).ok
        /\ res.r.frame = DebugFrame(res.level).frame
        /\ res.r.frame = Len(stack) - _ensure_level(res.level)
        /\ res.r.name = Above(_ensure_level(res.level)).name

\* The emit that made the step wrote its prefix.
WrotePrefix ==
    /\ last'.op = "debug" /\ last'.outcome = "printed"
    /\ last'.lineinfo # <<>>
    /\ Len(last'.text) >= Len(last'.lineinfo)
    /\ SubSeq(last'.text, 1, Len(last'.lineinfo)) = last'.lineinfo

\* C28: when every write to a stream goes through one emitter and the
\* stream starts at the beginning of a line, then in any sequence of emits
\* with any `end` and `align` a prefix is only written where a line
\* starts: never in the middle of a line, never twice on one line.
C28_PrefixOnlyAtLineStart ==
    [][ WrotePrefix => pos[last'.s] = "start" ]_vars

\* The emit that made the step is suppressed: it has no message argument,
\* or printing is disabled for its emitter, which is not in strict mode.
Suppressed ==
    /\ last'.op = "debug"
    /\ \/ last'.a.args = <<>>
       \/ /\ Disabled(last'.e)
          /\ ~(IF last'.e = "debug" THEN debug_should_raise
               ELSE cfg(last'.e).should_raise)

\* C29: a suppressed emit (no message argument, or printing disabled and
\* not strict) raises nothing, writes nothing and leaves every
\* continuation state and both enable flags as they were; so the first
\* emit after re-enabling still continues a line left open before,
\* without a prefix.
C29_SuppressedEmitNoOp ==
    [][ /\ Suppressed =>
            /\ last'.outcome \in {"noargs", "disabled"}
            /\ last'.text = <<>>
            /\ pos' = pos
            /\ debug_continued' = debug_continued
            /\ self_continued' = self_continued
            /\ _enabled' = _enabled
            /\ self_enabled' = self_enabled
        /\ (last'.op = "debug" /\ last'.outcome = "printed"
                /\ last'.before = "open") =>
            last'.text = Message(last'.e, last'.a) \o last'.a.end
      ]_vars

\* Witness of C29: debug left a line open on stderr, printing was disabled
\* and an emit with a message was suppressed; the line is still open and
\* stderr still CONTINUED.
C29_Witness ==
    /\ last.e = "debug" /\ last.op = "debug" /\ last.outcome = "disabled"
    /\ last.a.args # <<>>
    /\ ~_enabled
    /\ pos["stderr"] = "mid"
    /\ Cont("debug", "stderr")

=============================================================================
